---- MODULE Spec2Model ----
(***************************************************************************)
(* Accessory placement, compositing and resolution of the virtual fitting  *)
(* backend: landmark-driven placement, alpha compositing, accessory images *)
(* (backend/virtual_fitting.py, class VirtualFitter), with the landmark    *)
(* shapes produced by backend/avatar_generator.py.                         *)
(*                                                                         *)
(* Numbers.  Pixel coordinates, sizes and image fractions are Python       *)
(* floats in the source.  Here they are exact fixed-point values held in   *)
(* hundredths of a pixel (a value v stands for v / Scale), which is exact  *)
(* for every input of the model: landmark coordinates are whole pixels and *)
(* the source only halves, quarters and multiplies by one- or two-digit    *)
(* decimal fractions.  A rotation is held as a sign and the whole degrees  *)
(* of its magnitude (|rotation| lies in [deg, deg + 1)).                   *)
(*                                                                         *)
(* Python values.  A record's k field is its kind: "None" (the value       *)
(* None), "absent" (a key that is not in its dict), "empty" (the dict {}), *)
(* "dict" (a non-empty dict), "pt" (a landmark point, a non-empty dict),   *)
(* "ndarray" (a numpy array), "str" (a string).                            *)
(*                                                                         *)
(* Specifications.  Spec is one call of apply_accessory up to the          *)
(* placement it chooses.  SpecComposite is the compositing step a handler  *)
(* ends with (_place_accessory), on images a few pixels wide.              *)
(* SpecResolve is a series of calls on one VirtualFitter, with accessory   *)
(* references of every form and arrays held by shape (_get_accessory_image *)
(* and the checks of apply_accessory).  SpecServer is the try-on endpoint  *)
(* of backend/server.py serving one request after the other, and           *)
(* SpecThreads the same endpoint serving requests on concurrent threads.   *)
(***************************************************************************)
EXTENDS Integers, Sequences, FiniteSets, TLC

\* One call of apply_accessory, up to the placement it chooses.
VARIABLES image, landmarks, category, outcome, placement, source

\* One call of a handler's compositing step: the arrays that exist (heap), the
\* caller's two arrays as they were passed (before), the placement passed to
\* _place_accessory (call), the array returned (ret, 0 while the call runs)
\* and the locals of _place_accessory when it composited (locals).
VARIABLES heap, before, call, ret, locals

\* A VirtualFitter over its lifetime: its accessory_cache, how often each
\* path has been decoded (decodes), the number of calls made (calls) and the
\* last call with its outcome (last).
VARIABLES accessory_cache, decodes, calls, last

\* The server: its avatars_cache, the requests answered so far with their
\* responses (log) and the requests being handled, one per thread (threads).
VARIABLES avatars_cache, log, threads

placementVars == <<image, landmarks, category, outcome, placement, source>>

compositorVars == <<heap, before, call, ret, locals>>

resolverVars == <<accessory_cache, decodes, calls, last>>

serverVars == <<avatars_cache, log, threads>>

vars == <<placementVars, compositorVars, resolverVars, serverVars>>

\* Fixed-point unit: a stored value v stands for v / Scale pixels.
Scale == 10 * 10

\* Landmark coordinates are drawn from 0, 100, .., 100 * MaxCoord.
MaxCoord == 3

\* Longest face-oval point sequence.
MaxOval == 3

---------------------------------------------------------------------------
(* Python values *)

None == [k |-> "None"]

Absent == [k |-> "absent"]

EmptyDict == [k |-> "empty"]

Pt(px, py, vis) == [k |-> "pt", x |-> px, y |-> py, visibility |-> vis]

\* bool(v): None and {} are falsy, non-empty dicts are truthy.
Truthy(v) == v.k \in {"dict", "pt"}

\* key in d
HasKey(v) == v.k # "absent"

\* d.get(key, {})
GetOrEmpty(v) == IF v.k = "absent" THEN EmptyDict ELSE v

\* d.get(key)
GetOrNone(v) == IF v.k = "absent" THEN None ELSE v

Abs(n) == IF n < 0 THEN -n ELSE n

Max(a, b) == IF a >= b THEN a ELSE b

Min(a, b) == IF a <= b THEN a ELSE b

---------------------------------------------------------------------------
(* AccessoryType *)

AccessoryType == {"clothing", "jewelry", "glasses", "hats", "watches", "other"}

\* Faulty variant: the lookup ignores the case of the string.
CategoryEnumCaseFolded(cat) ==
  IF cat \in AccessoryType THEN cat
  ELSE IF cat = "Clothing" THEN "clothing" ELSE "other"

\* AccessoryType(category), with the except branch of apply_accessory.
CategoryEnum(cat) == IF cat \in AccessoryType THEN cat ELSE "other"

---------------------------------------------------------------------------
(* np.degrees(np.arctan(dy / dx)) *)

\* ceil(10^4 * tan(k degrees)) for k = 0 .. 89, at index k + 1.
TanE4 ==
  << 0, 175, 350, 525, 700, 875, 1052, 1228, 1406, 1584, 1764, 1944,
     2126, 2309, 2494, 2680, 2868, 3058, 3250, 3444, 3640, 3839, 4041,
     4245, 4453, 4664, 4878, 5096, 5318, 5544, 5774, 6009, 6249, 6495,
     6746, 7003, 7266, 7536, 7813, 8098, 8391, 8693, 9005, 9326, 9657,
     10000, 10356, 10724, 11107, 11504, 11918, 12349, 12800, 13271,
     13764, 14282, 14826, 15399, 16004, 16643, 17321, 18041, 18808,
     19627, 20504, 21446, 22461, 23559, 24751, 26051, 27475, 29043,
     30777, 32709, 34875, 37321, 40108, 43315, 47047, 51446, 56713,
     63138, 71154, 81444, 95144, 114301, 143007, 190812, 286363, 572900 >>

Rot0 == [sgn |-> 0, deg |-> 0]

\* Whole degrees of arctan(n / d) for n >= 0, d > 0: the largest k in 0..89
\* with tan(k) <= n / d.
RECURSIVE DegreesFrom(_, _, _)
DegreesFrom(k, n, d) ==
  IF k < 89 /\ TanE4[k + 2] * d <= n * 10000
  THEN DegreesFrom(k + 1, n, d)
  ELSE k

\* np.degrees(np.arctan(dy / dx)) for dx # 0: the sign of dy / dx and the
\* whole degrees of the magnitude.
ArctanDegrees(dy, dx) ==
  [sgn |-> IF dy = 0 THEN 0 ELSE IF (dy > 0) = (dx > 0) THEN 1 ELSE -1,
   deg |-> DegreesFrom(0, Abs(dy), Abs(dx))]

---------------------------------------------------------------------------
(* Placement dicts *)

Placement(px, py, pw, ph, rot) ==
  [k |-> "dict", x |-> px, y |-> py, width |-> pw, height |-> ph,
   rotation |-> rot]

\* The outcome of a _get_*_placement call that raised.
Raised == [k |-> "raise"]

\* _get_default_placement(image, accessory, position_type)
_get_default_placement(img, position_type) ==
  LET w == img.w
      h == img.h
  IN CASE position_type = "head" ->
            Placement(Scale * (w \div 2), 15 * h, 50 * w, 20 * h, Rot0)
       [] position_type = "face" ->
            Placement(Scale * (w \div 2), 25 * h, 40 * w, 10 * h, Rot0)
       [] position_type = "neck" ->
            Placement(Scale * (w \div 2), 35 * h, 30 * w, 10 * h, Rot0)
       [] position_type = "torso" ->
            Placement(Scale * (w \div 2), 50 * h, 70 * w, 40 * h, Rot0)
       [] position_type = "wrist" ->
            Placement(70 * w, 60 * h, 15 * w, 15 * w, Rot0)
       [] OTHER ->
            Placement(Scale * (w \div 2), Scale * (h \div 2), 50 * w, 30 * h,
                      Rot0)

\* shoulders.get('left'), hips.get('right'), ... on a dict that may be {}.
LeftOf(group) == IF group.k = "dict" THEN GetOrNone(group.left) ELSE None

RightOf(group) == IF group.k = "dict" THEN GetOrNone(group.right) ELSE None

\* landmarks.get('features', {}) followed by features.get(name, {}).
Features(sub) == GetOrEmpty(sub.features)

\* features.get(name, ...) on the features dict, which may be {}.
Feature(features, name) ==
  IF features.k = "dict" THEN features[name] ELSE Absent

---------------------------------------------------------------------------
(* _get_clothing_placement *)

\* width = abs(right_shoulder['x'] - left_shoulder['x']) * 2
ClothingWidth(left_shoulder, right_shoulder) ==
  Abs(Scale * right_shoulder.x - Scale * left_shoulder.x) * 2

\* Faulty variant: the doubling of the half torso is left out.
ClothingTorsoHeightOnce(hip_center_y, center_y) == hip_center_y - center_y

\* torso_height = (hip_center_y - center_y) * 2, center_y being the middle
\* of the torso by then.
ClothingTorsoHeight(hip_center_y, center_y) == (hip_center_y - center_y) * 2

\* Faulty variant: dx and dy change places.
ClothingRotationSwapped(left_shoulder, right_shoulder) ==
  LET dy == right_shoulder.y - left_shoulder.y
      dx == right_shoulder.x - left_shoulder.x
  IN IF dy # 0 THEN ArctanDegrees(dx, dy) ELSE Rot0

\* rotation: arctan(dy / dx) in degrees unless dx = 0.
ClothingRotation(left_shoulder, right_shoulder) ==
  LET dy == right_shoulder.y - left_shoulder.y
      dx == right_shoulder.x - left_shoulder.x
  IN IF dx # 0 THEN ArctanDegrees(dy, dx) ELSE Rot0

_get_clothing_placement(img, pose) ==
  LET h == img.h
      features == Features(pose)
      shoulders == GetOrEmpty(Feature(features, "shoulders"))
      hips == GetOrEmpty(Feature(features, "hips"))
      left_shoulder == LeftOf(shoulders)
      right_shoulder == RightOf(shoulders)
      left_hip == LeftOf(hips)
      right_hip == RightOf(hips)
      have_hips == Truthy(left_hip) /\ Truthy(right_hip)
      center_x == (Scale * (left_shoulder.x + right_shoulder.x)) \div 2
      shoulder_y == (Scale * (left_shoulder.y + right_shoulder.y)) \div 2
      hip_center_y == (Scale * (left_hip.y + right_hip.y)) \div 2
      center_y == IF have_hips
                  THEN (shoulder_y + hip_center_y) \div 2
                  ELSE shoulder_y + 10 * h
      height == IF have_hips
                THEN Max(ClothingTorsoHeight(hip_center_y, center_y), 30 * h)
                ELSE 50 * h
  IN IF ~(Truthy(left_shoulder) /\ Truthy(right_shoulder))
     THEN None
     ELSE Placement(center_x, center_y,
                    ClothingWidth(left_shoulder, right_shoulder), height,
                    ClothingRotation(left_shoulder, right_shoulder))

---------------------------------------------------------------------------
(* _get_jewelry_placement *)

\* Faulty variant: the neck is put below the shoulder line instead of above it.
JewelryFromShouldersLowered(h, left_shoulder, right_shoulder) ==
  LET center_x == (Scale * (left_shoulder.x + right_shoulder.x)) \div 2
      center_y == (Scale * (left_shoulder.y + right_shoulder.y)) \div 2
                  + 5 * h
      shoulder_width == Abs(Scale * right_shoulder.x - Scale * left_shoulder.x)
  IN Placement(center_x, center_y, (shoulder_width * 6) \div 10,
               (shoulder_width * 3) \div 10, Rot0)

\* The approximation of the neck from the two shoulders.
JewelryFromShoulders(h, left_shoulder, right_shoulder) ==
  LET center_x == (Scale * (left_shoulder.x + right_shoulder.x)) \div 2
      center_y == (Scale * (left_shoulder.y + right_shoulder.y)) \div 2
                  - 5 * h
      shoulder_width == Abs(Scale * right_shoulder.x - Scale * left_shoulder.x)
  IN Placement(center_x, center_y, (shoulder_width * 6) \div 10,
               (shoulder_width * 3) \div 10, Rot0)

\* The placement at the neck landmark.
JewelryFromNeck(img, neck) ==
  Placement(Scale * neck.x, Scale * neck.y, 20 * img.w, 10 * img.h, Rot0)

_get_jewelry_placement(img, pose) ==
  LET features == Features(pose)
      neck == GetOrNone(Feature(features, "neck"))
      shoulders == GetOrEmpty(Feature(features, "shoulders"))
      left_shoulder == LeftOf(shoulders)
      right_shoulder == RightOf(shoulders)
  IN IF ~Truthy(neck)
     THEN IF Truthy(left_shoulder) /\ Truthy(right_shoulder)
          THEN JewelryFromShoulders(img.h, left_shoulder, right_shoulder)
          ELSE None
     ELSE JewelryFromNeck(img, neck)

---------------------------------------------------------------------------
(* _get_glasses_placement *)

\* 'center' in eye, for an eye dict that may be {} or None.
HasCenter(eye) == eye.k = "dict" /\ HasKey(eye.center)

\* Faulty variant: the abs() is left out.
EyeDistanceSigned(left_eye_center, right_eye_center) ==
  Scale * right_eye_center.x - Scale * left_eye_center.x

\* eye_distance = abs(right_eye_center['x'] - left_eye_center['x'])
EyeDistance(left_eye_center, right_eye_center) ==
  Abs(Scale * right_eye_center.x - Scale * left_eye_center.x)

\* Faulty variant: the full-circle angle of the eye line, np.arctan2(dy, dx), in
\* place of np.arctan(dy / dx).
GlassesRotationArctan2(left_eye_center, right_eye_center) ==
  LET dy == right_eye_center.y - left_eye_center.y
      dx == right_eye_center.x - left_eye_center.x
      half == ArctanDegrees(Abs(dy), Abs(dx))
  IN IF dx = 0 THEN Rot0
     ELSE IF dx > 0 THEN ArctanDegrees(dy, dx)
     ELSE [sgn |-> IF dy < 0 THEN -1 ELSE 1, deg |-> 179 - half.deg]

\* rotation: arctan(dy / dx) in degrees unless dx = 0.
GlassesRotation(left_eye_center, right_eye_center) ==
  LET dy == right_eye_center.y - left_eye_center.y
      dx == right_eye_center.x - left_eye_center.x
  IN IF dx # 0 THEN ArctanDegrees(dy, dx) ELSE Rot0

\* The guard before the eye centers are read.
GlassesLandmarksUsable(left_eye, right_eye) ==
  Truthy(left_eye) /\ Truthy(right_eye)
  /\ HasCenter(left_eye) /\ HasCenter(right_eye)

_get_glasses_placement(img, face) ==
  LET features == Features(face)
      left_eye == GetOrEmpty(Feature(features, "left_eye"))
      right_eye == GetOrEmpty(Feature(features, "right_eye"))
      left_eye_center == left_eye.center
      right_eye_center == right_eye.center
      center_x == (Scale * (left_eye_center.x + right_eye_center.x)) \div 2
      center_y == (Scale * (left_eye_center.y + right_eye_center.y)) \div 2
      width == (EyeDistance(left_eye_center, right_eye_center) * 22) \div 10
      height == (width * 4) \div 10
  IN IF ~GlassesLandmarksUsable(left_eye, right_eye)
     THEN None
     ELSE IF left_eye_center.k = "None" \/ right_eye_center.k = "None"
          THEN Raised   \* None['x'] : TypeError
          ELSE Placement(center_x, center_y, width, height,
                         GlassesRotation(left_eye_center, right_eye_center))

---------------------------------------------------------------------------
(* _get_hat_placement *)

\* Faulty variant: the scan stops after the first point it looks at.
ScanOvalFirstOnly(pts, i, top, left, right) ==
  IF i > Len(pts)
  THEN [top |-> top, left |-> left, right |-> right]
  ELSE [top |-> pts[i], left |-> pts[i], right |-> pts[i]]

\* The scan of face_oval.items(): top, left and right after the points of
\* pts from index i on, None standing for "not found yet".
RECURSIVE ScanOval(_, _, _, _, _)
ScanOval(pts, i, top, left, right) ==
  IF i > Len(pts)
  THEN [top |-> top, left |-> left, right |-> right]
  ELSE LET landmark == pts[i]
           top1 == IF top.k = "None" \/ landmark.y < top.y
                   THEN landmark ELSE top
           left1 == IF left.k = "None" \/ landmark.x < left.x
                    THEN landmark ELSE left
           right1 == IF right.k = "None" \/ landmark.x > right.x
                     THEN landmark ELSE right
       IN ScanOval(pts, i + 1, top1, left1, right1)

\* The placement from the three extreme points.
HatFromExtremes(top, left, right) ==
  LET face_width == Abs(Scale * right.x - Scale * left.x)
      width == (face_width * 15) \div 10
      center_x == (Scale * (left.x + right.x)) \div 2
      center_y == Scale * top.y - (width * 2) \div 10
      height == (width * 6) \div 10
  IN Placement(center_x, center_y, width, height, Rot0)

_get_hat_placement(img, face) ==
  LET features == Features(face)
      face_oval == GetOrEmpty(Feature(features, "face_oval"))
      pts == IF face_oval.k = "dict" THEN face_oval.pts ELSE << >>
      found == ScanOval(pts, 1, None, None, None)
  IN IF ~(Truthy(found.top) /\ Truthy(found.left) /\ Truthy(found.right))
     THEN None
     ELSE HatFromExtremes(found.top, found.left, found.right)

---------------------------------------------------------------------------
(* _get_watch_placement *)

\* Faulty variant: a visibility of exactly 0.5 is accepted.
WristUsableAtLeast(left_wrist) ==
  Truthy(left_wrist) /\ left_wrist.visibility >= 50

\* left_wrist and left_wrist['visibility'] > 0.5 (visibility in hundredths)
WristUsable(left_wrist) ==
  Truthy(left_wrist) /\ left_wrist.visibility > 50

_get_watch_placement(img, pose) ==
  LET features == Features(pose)
      wrists == GetOrEmpty(Feature(features, "wrists"))
      left_wrist == LeftOf(wrists)
      wrist_size == 10 * img.w
  IN IF WristUsable(left_wrist)
     THEN Placement(Scale * left_wrist.x, Scale * left_wrist.y, wrist_size,
                    wrist_size, Rot0)
     ELSE None

---------------------------------------------------------------------------
(* _apply_clothing, _apply_jewelry, _apply_glasses, _apply_hat,            *)
(* _apply_watch, _apply_generic_accessory: the placement each hands to     *)
(* _place_accessory.                                                       *)

\* landmarks and key in landmarks and landmarks[key]
HasSubset(lm, key) == Truthy(lm) /\ HasKey(lm[key]) /\ Truthy(lm[key])

\* The result of a handler whose placement rule gave `found`: a raise goes
\* up to the caller, None selects the default, a dict is used as it is.
Chosen(found, default) ==
  CASE found.k = "raise" ->
         [outcome |-> "raised", placement |-> None, source |-> "none"]
    [] found.k = "None" ->
         [outcome |-> "returned", placement |-> default, source |-> "default"]
    [] OTHER ->
         [outcome |-> "returned", placement |-> found, source |-> "landmark"]

_apply_clothing(img, lm) ==
  Chosen(IF HasSubset(lm, "pose") THEN _get_clothing_placement(img, lm.pose)
                                  ELSE None,
         _get_default_placement(img, "torso"))

_apply_jewelry(img, lm) ==
  Chosen(IF HasSubset(lm, "pose") THEN _get_jewelry_placement(img, lm.pose)
                                  ELSE None,
         _get_default_placement(img, "neck"))

_apply_glasses(img, lm) ==
  Chosen(IF HasSubset(lm, "face") THEN _get_glasses_placement(img, lm.face)
                                  ELSE None,
         _get_default_placement(img, "face"))

_apply_hat(img, lm) ==
  Chosen(IF HasSubset(lm, "face") THEN _get_hat_placement(img, lm.face)
                                  ELSE None,
         _get_default_placement(img, "head"))

_apply_watch(img, lm) ==
  Chosen(IF HasSubset(lm, "pose") THEN _get_watch_placement(img, lm.pose)
                                  ELSE None,
         _get_default_placement(img, "wrist"))

_apply_generic_accessory(img) ==
  Chosen(None, _get_default_placement(img, "center"))

---------------------------------------------------------------------------
(* Inputs: avatar sizes and landmark sets *)

\* Avatar sizes (w, h): one with even sides, one with odd sides.
ImageSizes == {[w |-> 400, h |-> 600], [w |-> 101, h |-> 75]}

\* One x lies one pixel off the grid, so that near-vertical lines occur.
XCoords == {100 * i : i \in 0..MaxCoord} \cup {101}

YCoords == {100 * i : i \in 0..MaxCoord}

\* Pose points carry a visibility, face points do not read theirs.
BodyPoints == {Pt(px, py, 90) : px \in XCoords, py \in YCoords}

HipPoints == {Pt(200, py, 90) : py \in YCoords}

WristPoints == {Pt(px, 200, vis) : px \in {100, 300}, vis \in {30, 50, 51, 80}}

NeckPoints == {Pt(200, 100, 0), Pt(101, 300, 0)}

FacePoints == {Pt(px, py, 0) : px \in XCoords, py \in YCoords}

OvalPoints ==
  {Pt(100, 200, 0), Pt(200, 100, 0), Pt(300, 200, 0), Pt(200, 300, 0),
   Pt(100, 100, 0)}

Opt(S) == S \cup {None}

\* {'left': l, 'right': r}, as _detect_pose_landmarks builds its groups.
Pair(l, r) == [k |-> "dict", left |-> l, right |-> r]

\* The eye dict of _get_eye_landmarks: never empty, its center may be None.
Eye(c) == [k |-> "dict", center |-> c]

Oval(pts) == [k |-> "dict", pts |-> pts]

SeqsUpTo(S, n) == UNION {[1..m -> S] : m \in 0..n}

PoseFeatures(sh, hp, wr, nk) ==
  [k |-> "dict", shoulders |-> sh, hips |-> hp, wrists |-> wr, neck |-> nk]

FaceFeatures(le, re, fo) ==
  [k |-> "dict", left_eye |-> le, right_eye |-> re, face_oval |-> fo]

\* {'landmarks': ..., 'features': ...}
Subset(features) == [k |-> "dict", features |-> features]

\* Poses that vary the shoulders and the hips.
ClothingPoses ==
  {Subset(PoseFeatures(Pair(l, r), hp, Pair(None, None), None)) :
     l \in Opt(BodyPoints), r \in Opt(BodyPoints),
     hp \in {Absent} \cup {Pair(a, b) : a \in Opt(HipPoints),
                                        b \in Opt(HipPoints)}}

\* Poses that vary the neck and the shoulders.
JewelryPoses ==
  {Subset(PoseFeatures(sh, Pair(None, None), Pair(None, None), nk)) :
     sh \in {Absent} \cup {Pair(l, r) : l \in Opt(BodyPoints),
                                        r \in Opt(BodyPoints)},
     nk \in {Absent} \cup NeckPoints}

\* Poses that vary the wrists.
WatchPoses ==
  {Subset(PoseFeatures(Pair(None, None), Pair(None, None), wr, None)) :
     wr \in {Absent} \cup {Pair(l, r) : l \in Opt(WristPoints),
                                        r \in {None, Pt(300, 300, 90)}}}

\* Faces that vary the eyes.
GlassesFaces ==
  {Subset(FaceFeatures(le, re, Oval(<< >>))) :
     le \in {Absent} \cup {Eye(c) : c \in {Absent, None} \cup FacePoints},
     re \in {Absent} \cup {Eye(c) : c \in {Absent, None} \cup FacePoints}}

\* Faces that vary the face oval.
HatFaces ==
  {Subset(FaceFeatures(Eye(None), Eye(None), fo)) :
     fo \in {Absent} \cup {Oval(pts) : pts \in SeqsUpTo(OvalPoints, MaxOval)}}

\* A sub-set that is not in the dict, is None, or holds no features.
NoSubset == {Absent, None, Subset(Absent)}

LandmarkSet(face, pose) == [k |-> "dict", face |-> face, pose |-> pose]

LandmarkSets ==
  {None, EmptyDict}
  \cup {LandmarkSet(f, p) : f \in NoSubset, p \in NoSubset}
  \cup {LandmarkSet(None, p) :
          p \in ClothingPoses \cup JewelryPoses \cup WatchPoses}
  \cup {LandmarkSet(f, None) : f \in GlassesFaces \cup HatFaces}

\* Category strings that are no AccessoryType.
UnknownCategories == {"shoes", "Clothing"}

\* The category strings a caller passes.
CategoryStrings == AccessoryType \cup UnknownCategories

---------------------------------------------------------------------------
(* State machine: one call of apply_accessory on a valid avatar image and  *)
(* a valid accessory image.                                                *)

\* No compositing call is under way.
CompositorIdle ==
  /\ heap = <<>>
  /\ before = <<>>
  /\ call = None
  /\ ret = 0
  /\ locals = None

\* No VirtualFitter is under study.
ServerIdle ==
  /\ avatars_cache = <<>>
  /\ log = <<>>
  /\ threads = <<>>

ResolverIdle ==
  /\ accessory_cache = <<>>
  /\ decodes = <<>>
  /\ calls = 0
  /\ last = None

Init ==
  /\ image \in ImageSizes
  /\ landmarks \in LandmarkSets
  /\ category = ""
  /\ outcome = "pending"
  /\ placement = None
  /\ source = "none"
  /\ CompositorIdle
  /\ ResolverIdle
  /\ ServerIdle

Finish(cat, result) ==
  /\ category' = cat
  /\ outcome' = result.outcome
  /\ placement' = result.placement
  /\ source' = result.source
  /\ UNCHANGED <<image, landmarks>>
  /\ UNCHANGED compositorVars
  /\ UNCHANGED resolverVars
  /\ UNCHANGED serverVars

ApplyClothing ==
  /\ outcome = "pending"
  /\ \E cat \in CategoryStrings :
       /\ CategoryEnum(cat) = "clothing"
       /\ Finish(cat, _apply_clothing(image, landmarks))

ApplyJewelry ==
  /\ outcome = "pending"
  /\ \E cat \in CategoryStrings :
       /\ CategoryEnum(cat) = "jewelry"
       /\ Finish(cat, _apply_jewelry(image, landmarks))

ApplyGlasses ==
  /\ outcome = "pending"
  /\ \E cat \in CategoryStrings :
       /\ CategoryEnum(cat) = "glasses"
       /\ Finish(cat, _apply_glasses(image, landmarks))

ApplyHat ==
  /\ outcome = "pending"
  /\ \E cat \in CategoryStrings :
       /\ CategoryEnum(cat) = "hats"
       /\ Finish(cat, _apply_hat(image, landmarks))

ApplyWatch ==
  /\ outcome = "pending"
  /\ \E cat \in CategoryStrings :
       /\ CategoryEnum(cat) = "watches"
       /\ Finish(cat, _apply_watch(image, landmarks))

ApplyGeneric ==
  /\ outcome = "pending"
  /\ \E cat \in CategoryStrings :
       /\ CategoryEnum(cat) = "other"
       /\ Finish(cat, _apply_generic_accessory(image))

Next ==
  \/ ApplyClothing
  \/ ApplyJewelry
  \/ ApplyGlasses
  \/ ApplyHat
  \/ ApplyWatch
  \/ ApplyGeneric

Spec == Init /\ [][Next]_vars

---------------------------------------------------------------------------
(* The inputs of the call, read as the specification names them *)

\* The call has ended, by returning or by raising.
Called == outcome # "pending"

\* The handler the call was dispatched to.
Handler == CategoryEnum(category)

\* A feature entry of the face or pose sub-set; Absent when the landmark
\* set, the sub-set or its features are missing.
FeatureOf(key, name) ==
  IF landmarks.k = "dict" /\ landmarks[key].k = "dict"
     /\ landmarks[key].features.k = "dict"
  THEN landmarks[key].features[name]
  ELSE Absent

Side(group, side) == IF group.k = "dict" THEN group[side] ELSE Absent

IsPoint(v) == v.k = "pt"

LeftShoulder == Side(FeatureOf("pose", "shoulders"), "left")

RightShoulder == Side(FeatureOf("pose", "shoulders"), "right")

LeftHip == Side(FeatureOf("pose", "hips"), "left")

RightHip == Side(FeatureOf("pose", "hips"), "right")

LeftWrist == Side(FeatureOf("pose", "wrists"), "left")

Neck == FeatureOf("pose", "neck")

LeftEyeCenter == Side(FeatureOf("face", "left_eye"), "center")

RightEyeCenter == Side(FeatureOf("face", "right_eye"), "center")

FaceOval ==
  IF FeatureOf("face", "face_oval").k = "dict"
  THEN FeatureOf("face", "face_oval").pts
  ELSE << >>

BothShoulders == IsPoint(LeftShoulder) /\ IsPoint(RightShoulder)

BothHips == IsPoint(LeftHip) /\ IsPoint(RightHip)

BothEyeCenters == IsPoint(LeftEyeCenter) /\ IsPoint(RightEyeCenter)

WristVisible == IsPoint(LeftWrist) /\ LeftWrist.visibility > 50

\* The landmarks the category's placement rule requires are all there.
RequiredPresent ==
  CASE Handler = "clothing" -> BothShoulders
    [] Handler = "jewelry" -> IsPoint(Neck) \/ BothShoulders
    [] Handler = "glasses" -> BothEyeCenters
    [] Handler = "hats" -> Len(FaceOval) > 0
    [] Handler = "watches" -> WristVisible
    [] OTHER -> FALSE

\* The surface whose default entry a category falls back to.
SurfaceOf(cat) ==
  CASE cat = "clothing" -> "torso"
    [] cat = "jewelry" -> "neck"
    [] cat = "glasses" -> "face"
    [] cat = "hats" -> "head"
    [] cat = "watches" -> "wrist"
    [] OTHER -> "center"

\* The mean of two pixel coordinates, in hundredths.
Mean(a, b) == (Scale * (a + b)) \div 2

\* rot is the value of arctan(dy / dx) in degrees, dx # 0: its sign is the
\* sign of dy / dx and tan(deg) <= |dy / dx| < tan(deg + 1).
IsArctanDegrees(rot, dy, dx) ==
  /\ rot.sgn = (IF dy = 0 THEN 0 ELSE IF (dy > 0) = (dx > 0) THEN 1 ELSE -1)
  /\ rot.deg \in 0..89
  /\ TanE4[rot.deg + 1] * Abs(dx) <= Abs(dy) * 10000
  /\ rot.deg < 89 => TanE4[rot.deg + 2] * Abs(dx) > Abs(dy) * 10000

---------------------------------------------------------------------------
(* C1 *)

\* C1: for every category, a call whose landmark set lacks a landmark the
\* category requires (no landmark set, no face/pose sub-set, no feature
\* entry, or an entry that holds no point) returns with the category's
\* default placement and never raises.
C1_MissingLandmarkSelectsDefault ==
  (Called /\ ~RequiredPresent) =>
     (outcome = "returned" /\ source = "default")

---------------------------------------------------------------------------
(* C2 *)

\* The default-fallback table as documented: centers and sizes are
\* fractions of the image width and height, the center x half the width.
DocumentedDefault(img, surface) ==
  LET w == img.w
      h == img.h
  IN CASE surface = "torso" -> Placement(50 * w, 50 * h, 70 * w, 40 * h, Rot0)
       [] surface = "neck" -> Placement(50 * w, 35 * h, 30 * w, 10 * h, Rot0)
       [] surface = "face" -> Placement(50 * w, 25 * h, 40 * w, 10 * h, Rot0)
       [] surface = "head" -> Placement(50 * w, 15 * h, 50 * w, 20 * h, Rot0)
       [] surface = "wrist" -> Placement(70 * w, 60 * h, 15 * w, 15 * w, Rot0)
       [] OTHER -> Placement(50 * w, 50 * h, 50 * w, 30 * h, Rot0)

\* C2: whenever the landmark-derived rule is inapplicable, the placement
\* used is exactly the documented default entry of the category's surface,
\* with rotation 0.
C2_InapplicableUsesDocumentedDefault ==
  (Called /\ ~RequiredPresent) =>
     (outcome = "returned"
      /\ placement = DocumentedDefault(image, SurfaceOf(Handler)))

---------------------------------------------------------------------------
(* C3 *)

\* C3: for every category, whenever the required landmarks are present the
\* placement that is used has width > 0 and height > 0.
C3_PresentLandmarksGivePositiveSize ==
  (Called /\ RequiredPresent) =>
     (outcome = "returned" /\ placement.width > 0 /\ placement.height > 0)

---------------------------------------------------------------------------
(* C4 *)

\* Clothing was placed from the shoulders.
ClothingFromShoulders == Called /\ Handler = "clothing" /\ BothShoulders

ShoulderCenterY == Mean(LeftShoulder.y, RightShoulder.y)

HipCenterY == Mean(LeftHip.y, RightHip.y)

\* C4 as stated: with both hips the clothing height is
\* max(2 x (hip-center-y - shoulder-center-y), 30% of the image height),
\* without a hip it is 50% of the image height.
C4_HeightTwiceTorso ==
  ClothingFromShoulders =>
     placement.height =
        (IF BothHips
         THEN Max(2 * (HipCenterY - ShoulderCenterY), 30 * image.h)
         ELSE 50 * image.h)

\* C4 as amended: with both hips the clothing height is
\* max(hip-center-y - shoulder-center-y, 30% of the image height), the
\* shoulder-to-hip distance taken once; without a hip it is exactly 50% of
\* the image height.
C4_HeightShoulderToHip ==
  ClothingFromShoulders =>
     placement.height =
        (IF BothHips
         THEN Max(HipCenterY - ShoulderCenterY, 30 * image.h)
         ELSE 50 * image.h)

\* Clothing placed with both hips, the torso being taller than the minimum.
C4_Witness ==
  /\ ClothingFromShoulders
  /\ BothHips
  /\ HipCenterY - ShoulderCenterY > 30 * image.h
  /\ placement.height = HipCenterY - ShoulderCenterY

---------------------------------------------------------------------------
(* C5 *)

\* C5: the clothing rotation is arctan(dy / dx) in degrees between the two
\* shoulder points and 0 when dx = 0; level shoulders give rotation 0 and a
\* center x equal to the mean shoulder x.
C5_ClothingRotation ==
  ClothingFromShoulders =>
     LET dy == RightShoulder.y - LeftShoulder.y
         dx == RightShoulder.x - LeftShoulder.x
     IN /\ dx = 0 => placement.rotation = Rot0
        /\ dx # 0 => IsArctanDegrees(placement.rotation, dy, dx)
        /\ dy = 0 => /\ placement.rotation = Rot0
                     /\ placement.x = Mean(LeftShoulder.x, RightShoulder.x)

\* Shoulders at (100, 200) and (300, 200): rotation 0, center x 200.
C5_Witness ==
  /\ ClothingFromShoulders
  /\ LeftShoulder.x = 100 /\ LeftShoulder.y = 200
  /\ RightShoulder.x = 300 /\ RightShoulder.y = 200
  /\ placement.rotation = Rot0
  /\ placement.x = 200 * Scale

---------------------------------------------------------------------------
(* C6 *)

\* Glasses were placed from the two eye centers.
GlassesFromEyes == Called /\ Handler = "glasses" /\ BothEyeCenters

\* The line from the left to the right point rises at least 50 in 1.
NearVertical(left, right) ==
  right.x # left.x /\ Abs(right.y - left.y) >= 50 * Abs(right.x - left.x)

\* C6 as stated: near-vertical shoulder or eye lines give a rotation beyond
\* +/-90 degrees.
C6_NearVerticalExceeds90 ==
  /\ (ClothingFromShoulders /\ NearVertical(LeftShoulder, RightShoulder))
        => placement.rotation.deg >= 90
  /\ (GlassesFromEyes /\ NearVertical(LeftEyeCenter, RightEyeCenter))
        => placement.rotation.deg >= 90

\* C6 as amended: the rotation of clothing and glasses is the arctangent
\* itself, never clamped, so it lies strictly between -90 and +90 degrees:
\* near-vertical lines come close to +/-90 without exceeding it, and an
\* exactly vertical line (dx = 0) gives 0.
C6_RotationWithin90 ==
  /\ ClothingFromShoulders =>
        /\ placement.rotation.deg < 90
        /\ RightShoulder.x = LeftShoulder.x => placement.rotation = Rot0
        /\ NearVertical(LeftShoulder, RightShoulder) =>
              placement.rotation.deg >= 88
  /\ GlassesFromEyes =>
        /\ placement.rotation.deg < 90
        /\ RightEyeCenter.x = LeftEyeCenter.x => placement.rotation = Rot0
        /\ NearVertical(LeftEyeCenter, RightEyeCenter) =>
              placement.rotation.deg >= 88

\* Glasses on a near-vertical eye line, the right eye left of the left eye:
\* the rotation is 89 point something degrees.
C6_Witness ==
  /\ GlassesFromEyes
  /\ NearVertical(LeftEyeCenter, RightEyeCenter)
  /\ RightEyeCenter.x < LeftEyeCenter.x
  /\ placement.rotation.deg = 89

---------------------------------------------------------------------------
(* C7 *)

\* The square of the distance between the two eye centers, in pixels.
EyeDistanceSquared ==
  (RightEyeCenter.x - LeftEyeCenter.x) * (RightEyeCenter.x - LeftEyeCenter.x)
  + (RightEyeCenter.y - LeftEyeCenter.y) * (RightEyeCenter.y - LeftEyeCenter.y)

GlassesCentered ==
  /\ placement.x = Mean(LeftEyeCenter.x, RightEyeCenter.x)
  /\ placement.y = Mean(LeftEyeCenter.y, RightEyeCenter.y)

\* C7 as stated: the center is the midpoint of the eye centers, the width
\* 2.2 x the distance between the two eye centers (also when the eyes are
\* not level), the height 0.4 x the width.
C7_WidthFromEyeDistance ==
  GlassesFromEyes =>
     /\ GlassesCentered
     /\ placement.width % 220 = 0
     /\ (placement.width \div 220) * (placement.width \div 220)
           = EyeDistanceSquared
     /\ 10 * placement.height = 4 * placement.width

\* C7 as amended: the center is the midpoint of the eye centers, the width
\* 2.2 x the horizontal distance |dx| between the two eye centers (the
\* vertical offset of eyes that are not level does not count), the height
\* 0.4 x the width.
C7_WidthFromHorizontalDistance ==
  GlassesFromEyes =>
     /\ GlassesCentered
     /\ placement.width = 220 * Abs(RightEyeCenter.x - LeftEyeCenter.x)
     /\ 10 * placement.height = 4 * placement.width

\* Glasses on eyes that are not level and not above each other.
C7_Witness ==
  /\ GlassesFromEyes
  /\ RightEyeCenter.y # LeftEyeCenter.y
  /\ RightEyeCenter.x # LeftEyeCenter.x
  /\ placement.width = 220 * Abs(RightEyeCenter.x - LeftEyeCenter.x)

---------------------------------------------------------------------------
(* C8 *)

ShoulderDistance == Abs(Scale * RightShoulder.x - Scale * LeftShoulder.x)

\* C8: jewelry goes to the neck feature if there is one (20% of the width
\* by 10% of the height, rotation 0); else, with both shoulders, to the
\* shoulder midpoint raised by 5% of the image height, 0.6 x the shoulder
\* distance wide and 0.3 x high; otherwise to the neck default.
C8_JewelryPlacement ==
  (Called /\ Handler = "jewelry") =>
     /\ outcome = "returned"
     /\ IsPoint(Neck) =>
           placement = Placement(Scale * Neck.x, Scale * Neck.y,
                                 20 * image.w, 10 * image.h, Rot0)
     /\ (~IsPoint(Neck) /\ BothShoulders) =>
           /\ placement.x = Mean(LeftShoulder.x, RightShoulder.x)
           /\ placement.y = Mean(LeftShoulder.y, RightShoulder.y)
                              - 5 * image.h
           /\ 10 * placement.width = 6 * ShoulderDistance
           /\ 10 * placement.height = 3 * ShoulderDistance
     /\ (~IsPoint(Neck) /\ ~BothShoulders) =>
           /\ source = "default"
           /\ placement = _get_default_placement(image, "neck")

\* Jewelry placed from two shoulders that are apart, there being no neck.
C8_Witness ==
  /\ Called /\ Handler = "jewelry"
  /\ ~IsPoint(Neck) /\ BothShoulders
  /\ ShoulderDistance > 0
  /\ source = "landmark"
  /\ placement.y = Mean(LeftShoulder.y, RightShoulder.y) - 5 * image.h

---------------------------------------------------------------------------
(* C9 *)

OvalXs == {FaceOval[i].x : i \in 1..Len(FaceOval)}

OvalYs == {FaceOval[i].y : i \in 1..Len(FaceOval)}

SetMin(S) == CHOOSE m \in S : \A n \in S : m <= n

SetMax(S) == CHOOSE m \in S : \A n \in S : m >= n

\* C9: for a non-empty face oval the hat is 1.5 x (max x - min x) wide,
\* centered at the midpoint of min x and max x, at y = min y - 0.2 x width,
\* 0.6 x width high, rotation 0; an empty face oval selects the head
\* default.
C9_HatPlacement ==
  (Called /\ Handler = "hats") =>
     IF Len(FaceOval) > 0
     THEN LET width == 150 * (SetMax(OvalXs) - SetMin(OvalXs))
          IN /\ source = "landmark"
             /\ placement.width = width
             /\ placement.x = Mean(SetMin(OvalXs), SetMax(OvalXs))
             /\ 10 * placement.y = 10 * Scale * SetMin(OvalYs) - 2 * width
             /\ 10 * placement.height = 6 * width
             /\ placement.rotation = Rot0
     ELSE /\ source = "default"
          /\ placement = _get_default_placement(image, "head")

\* A hat on three oval points whose topmost, leftmost and rightmost points
\* differ, none of them first in the sequence.
C9_Witness ==
  /\ Called /\ Handler = "hats"
  /\ Len(FaceOval) = 3
  /\ FaceOval[1].x > SetMin(OvalXs) /\ FaceOval[1].x < SetMax(OvalXs)
  /\ FaceOval[1].y > SetMin(OvalYs)
  /\ source = "landmark"
  /\ placement.width = 150 * (SetMax(OvalXs) - SetMin(OvalXs))

---------------------------------------------------------------------------
(* C10 *)

\* C10: the watch placement is landmark-derived exactly when the left wrist
\* is present with visibility > 0.5, and is then centered at the left wrist,
\* 10% of the image width wide and high, rotation 0; in every other case the
\* wrist default is used.
C10_WatchPlacement ==
  (Called /\ Handler = "watches") =>
     /\ outcome = "returned"
     /\ (source = "landmark") <=> WristVisible
     /\ WristVisible =>
           placement = Placement(Scale * LeftWrist.x, Scale * LeftWrist.y,
                                 10 * image.w, 10 * image.w, Rot0)
     /\ ~WristVisible =>
           placement = Placement(70 * image.w, 60 * image.h,
                                 15 * image.w, 15 * image.w, Rot0)

\* A watch placed at a left wrist whose visibility is just above 0.5.
C10_Witness ==
  /\ Called /\ Handler = "watches"
  /\ WristVisible /\ LeftWrist.visibility = 51
  /\ source = "landmark"
  /\ placement.x = Scale * LeftWrist.x

---------------------------------------------------------------------------
(* C11 *)

\* C11: a category string that is none of clothing, jewelry, glasses, hats,
\* watches (an unknown string, or 'other' itself) never fails and is placed
\* with the center default, whatever landmarks are supplied: centered on the
\* image's middle pixel (w // 2, h // 2), 50% of the width wide, 30% of the
\* height high, rotation 0.
C11_UnknownCategoryIsOther ==
  (Called /\ category \notin (AccessoryType \ {"other"})) =>
     /\ outcome = "returned"
     /\ source = "default"
     /\ placement = Placement(Scale * (image.w \div 2),
                              Scale * (image.h \div 2),
                              50 * image.w, 30 * image.h, Rot0)

\* An unknown category string applied to an avatar whose shoulders and hips
\* are all known: the center default is used all the same.
C11_Witness ==
  /\ Called /\ category \in UnknownCategories
  /\ BothShoulders /\ BothHips
  /\ image.w = 101
  /\ source = "default"
  /\ placement.x = Scale * 50

---------------------------------------------------------------------------
(* Images.  An image is a numpy array of shape (h, w, 4) and dtype uint8:  *)
(* px maps <<row, col>> to the pixel's channel bytes b, g, r and a.  The   *)
(* heap is the sequence of the arrays that exist; an array is referred to  *)
(* by its index in the heap, so that two names of one array are told from  *)
(* two arrays with equal contents.                                         *)

\* Side of the base images: they are MaxSide + 1 wide and MaxSide high.
MaxSide == 3

Pixel(pb, pg, pr, pa) == [b |-> pb, g |-> pg, r |-> pr, a |-> pa]

\* Every pixel of the image equals the first one.
Uniform(img) == \A rc \in DOMAIN img.px : img.px[rc] = img.px[<<0, 0>>]

\* Faulty variant: the copy is another name of the same array.
NdarrayAlias(hp, ref) == [heap |-> hp, ref |-> ref]

\* array.copy(): a new array with the same contents.
NdarrayCopy(hp, ref) == [heap |-> Append(hp, hp[ref]), ref |-> Len(hp) + 1]

---------------------------------------------------------------------------
(* _place_accessory *)

\* Faulty variant: the nearest integer, halves away from zero.
ToIntNearest(v) ==
  IF v >= 0 THEN (v + Scale \div 2) \div Scale
  ELSE -((Scale \div 2 - v) \div Scale)

\* int(v) of a float: truncation toward zero.
ToInt(v) == IF v >= 0 THEN v \div Scale ELSE -((-v) \div Scale)

\* Faulty variant: the exact half, v / 2.
ExactHalf(v) == v \div 2

\* v // 2 of a float: the floor of the half, a whole number.
FloorHalf(v) == Scale * (v \div (2 * Scale))

\* cv2.resize(image, (tw, th), interpolation=cv2.INTER_AREA) for tw, th > 0.
\* A resize to the image's own size is a copy, and every resampling of a
\* uniform image is uniform; the model calls it on no other image (Usable).
CvResize(img, tw, th) ==
  IF tw = img.w /\ th = img.h
  THEN img
  ELSE [h |-> th, w |-> tw,
        px |-> [rc \in (0 .. th - 1) \X (0 .. tw - 1) |-> img.px[<<0, 0>>]]]

\* cv2.warpAffine(image, rotation_matrix, (w, h), flags=cv2.INTER_LINEAR,
\* borderMode=cv2.BORDER_TRANSPARENT) of a uniform image, called without a
\* destination array.  A pixel whose source lies inside the image takes the
\* interpolated value, the uniform one.  A pixel the rotation exposes is not
\* written by OpenCV: it keeps what the newly allocated array held, an
\* unspecified value (garbage).
CvWarpAffine(img, exposed, garbage) ==
  [img EXCEPT !.px = [rc \in DOMAIN img.px |->
                        IF rc \in exposed THEN garbage ELSE img.px[rc]]]

\* Faulty variant: the offset is only kept from exceeding the far edge.
ClampHighOnly(dim, size, offset) == Min(dim - size, offset)

\* max(0, min(dim - size, offset))
Clamp(dim, size, offset) == Max(0, Min(dim - size, offset))

\* Faulty variant: the whole accessory is taken, however large.
RoiExtentWhole(size, dim, offset) == size

\* roi_width = min(resized_accessory.shape[1], result.shape[1] - x_offset)
RoiExtent(size, dim, offset) == Min(size, dim - offset)

\* (1.0 - alpha / 255.0) * under + (alpha / 255.0) * over, stored into a
\* uint8 array, which truncates.  For the alpha values of the model (0, 128
\* and 255) the float result truncates to the floor of the exact value for
\* all bytes under and over.
Blend(alpha, under, over) ==
  ((255 - alpha) * under + alpha * over) \div 255

\* Faulty variant: the accessory's alpha is stored as well.
AlphaBlendAll(under, over) ==
  Pixel(Blend(over.a, under.b, over.b), Blend(over.a, under.g, over.g),
        Blend(over.a, under.r, over.r), over.a)

\* for c in range(3): roi[:, :, c] = ... ; channel 3 of roi is not assigned.
AlphaBlend(under, over) ==
  Pixel(Blend(over.a, under.b, over.b), Blend(over.a, under.g, over.g),
        Blend(over.a, under.r, over.r), under.a)

\* The outcome of _place_accessory: the heap, the array returned and the
\* locals of the call (None when nothing was composited).
Placed(hp, ref, loc) == [heap |-> hp, ret |-> ref, locals |-> loc]

\* _place_accessory(base_image, accessory_image, x, y, width, height,
\* rotation) on references into hp (0 is None); p holds x .. rotation.
\* exposed and garbage are what warpAffine left unwritten.  The resized and
\* the rotated accessory are temporaries no caller can reach; they are not
\* put on the heap.
_place_accessory(hp, base_image, accessory_image, p, exposed, garbage) ==
  IF accessory_image = 0 \/ base_image = 0
  THEN Placed(hp, base_image, None)
  ELSE
    LET copied == NdarrayCopy(hp, base_image)
        result == copied.ref
        base == copied.heap[result]
        tw == ToInt(p.width)
        th == ToInt(p.height)
    IN IF tw <= 0 \/ th <= 0
       THEN \* cv2.resize raises, the except branch returns base_image
            Placed(copied.heap, base_image, None)
       ELSE
         LET resized == CvResize(hp[accessory_image], tw, th)
             resized_accessory ==
               IF p.rotation.sgn # 0
               THEN CvWarpAffine(resized, exposed, garbage)
               ELSE resized
             x_raw == ToInt(p.x - FloorHalf(p.width))
             y_raw == ToInt(p.y - FloorHalf(p.height))
             outside == \/ x_raw < 0
                        \/ y_raw < 0
                        \/ x_raw + resized_accessory.w > base.w
                        \/ y_raw + resized_accessory.h > base.h
             x_offset == IF outside
                         THEN Clamp(base.w, resized_accessory.w, x_raw)
                         ELSE x_raw
             y_offset == IF outside
                         THEN Clamp(base.h, resized_accessory.h, y_raw)
                         ELSE y_raw
             roi_width == RoiExtent(resized_accessory.w, base.w, x_offset)
             roi_height == RoiExtent(resized_accessory.h, base.h, y_offset)
             InRoi(rc) ==
               /\ rc[1] - y_offset \in 0 .. roi_height - 1
               /\ rc[2] - x_offset \in 0 .. roi_width - 1
               /\ <<rc[1] - y_offset, rc[2] - x_offset>>
                     \in DOMAIN resized_accessory.px
             composited ==
               [base EXCEPT !.px =
                  [rc \in DOMAIN base.px |->
                     IF InRoi(rc)
                     THEN AlphaBlend(base.px[rc],
                            resized_accessory.px[<<rc[1] - y_offset,
                                                   rc[2] - x_offset>>])
                     ELSE base.px[rc]]]
         IN Placed([copied.heap EXCEPT ![result] = composited], result,
                   [k |-> "locals", resized_accessory |-> resized_accessory,
                    x_raw |-> x_raw, y_raw |-> y_raw,
                    x_offset |-> x_offset, y_offset |-> y_offset,
                    roi_width |-> roi_width, roi_height |-> roi_height])

\* The compositing step every _apply_* handler ends with:
\* result = avatar_image.copy(); result = self._place_accessory(result, ...);
\* return result.
ApplyHandler(hp, avatar_image, accessory_image, p, exposed, garbage) ==
  LET copied == NdarrayCopy(hp, avatar_image)
  IN _place_accessory(copied.heap, copied.ref, accessory_image, p,
                      exposed, garbage)

---------------------------------------------------------------------------
(* Inputs of the compositing step *)

\* Alpha bytes of the accessories.
AlphaValues == {0, 128, 255}

\* The avatar: every pixel differs from every other, and the alpha bytes
\* are not all equal, so that a moved or changed byte shows.
BasePixel(row, col) ==
  Pixel(11 + 10 * row + col, 101 + 10 * row + col, 201 + 10 * row + col,
        IF (row + col) % 2 = 0 THEN 255 ELSE 200)

BaseImage(rows, cols) ==
  [h |-> rows, w |-> cols,
   px |-> [rc \in (0 .. rows - 1) \X (0 .. cols - 1) |->
             BasePixel(rc[1], rc[2])]]

BaseImages == {BaseImage(MaxSide, MaxSide + 1)}

\* A one-pixel accessory: uniform, so that it can be resized to any size.
DotPixel(alpha) == Pixel(255, 0, 255, alpha)

DotImage(alpha) ==
  [h |-> 1, w |-> 1, px |-> [rc \in {<<0, 0>>} |-> DotPixel(alpha)]]

\* Two-by-two accessories whose colours all differ: fully opaque, fully
\* transparent, and with a different alpha at every pixel.
PatchPixel(row, col) == Pixel(40 + 100 * row + 50 * col, 7 + row, 90 - col, 0)

PatchImage(alphas) ==
  [h |-> 2, w |-> 2,
   px |-> [rc \in (0 .. 1) \X (0 .. 1) |->
             [PatchPixel(rc[1], rc[2])
                EXCEPT !.a = alphas[2 * rc[1] + rc[2] + 1]]]]

AccessoryImages ==
  {DotImage(alpha) : alpha \in AlphaValues}
  \cup {PatchImage(alphas) :
          alphas \in {<<255, 255, 255, 255>>, <<0, 0, 0, 0>>,
                      <<255, 0, 128, 255>>}}

\* What an unwritten pixel of a new array may hold.
GarbagePixels == {Pixel(3, 5, 8, 255), Pixel(3, 5, 8, 128)}

\* The pixels a rotation exposes: none, or one corner of an image that has
\* corners apart from each other.
ExposedSets(tw, th) ==
  {{}} \cup (IF tw > 1 /\ th > 1
             THEN {{<<row, col>>} : row \in {0, th - 1}, col \in {0, tw - 1}}
             ELSE {})

\* Centers from a pixel and a half outside the image on one side to a pixel
\* outside on the other, in steps of half a pixel.
CenterXs == {50 * i : i \in -3 .. 2 * (MaxSide + 2)}

CenterYs == {50 * i : i \in -3 .. 2 * (MaxSide + 1)}

\* Sizes: below one pixel, whole and fractional, the base's own size and
\* larger than the base.
Widths ==
  {50, 100, 170, 200, 270, 100 * (MaxSide + 1), 100 * (MaxSide + 2) + 50}

Heights ==
  {50, 100, 170, 200, 270, 100 * MaxSide, 100 * (MaxSide + 1) + 50}

Rotations == {Rot0, [sgn |-> 1, deg |-> 30]}

Placements ==
  {Placement(px, py, pw, ph, rot) :
     px \in CenterXs, py \in CenterYs, pw \in Widths, ph \in Heights,
     rot \in Rotations}

\* The calls whose resampling the model computes: an accessory of differing
\* pixels is placed at its own size and unrotated.
Usable(acc, p) ==
  \/ Uniform(acc)
  \/ ToInt(p.width) = acc.w /\ ToInt(p.height) = acc.h /\ p.rotation.sgn = 0

---------------------------------------------------------------------------
(* State machine: the compositing step of one handler call.  The caller's  *)
(* avatar is array 1 and the caller's accessory is array 2.                *)

PlacementIdle ==
  /\ image = None
  /\ landmarks = None
  /\ category = ""
  /\ outcome = "idle"
  /\ placement = None
  /\ source = "none"

InitComposite ==
  /\ PlacementIdle
  /\ ResolverIdle
  /\ ServerIdle
  /\ \E base \in BaseImages, acc \in AccessoryImages :
       heap = <<base, acc>>
  /\ before = heap
  /\ call \in {p \in Placements : Usable(heap[2], p)}
  /\ ret = 0
  /\ locals = None

Return(placed) ==
  /\ heap' = placed.heap
  /\ ret' = placed.ret
  /\ locals' = placed.locals
  /\ UNCHANGED <<before, call>>
  /\ UNCHANGED placementVars
  /\ UNCHANGED resolverVars
  /\ UNCHANGED serverVars

\* A handler composites an unrotated accessory.
CompositeUpright ==
  /\ ret = 0
  /\ call.rotation.sgn = 0
  /\ Return(ApplyHandler(heap, 1, 2, call, {}, DotPixel(0)))

\* A handler composites a rotated accessory; warpAffine leaves some pixels
\* of the rotated accessory unwritten.
CompositeRotated ==
  /\ ret = 0
  /\ call.rotation.sgn # 0
  /\ \E exposed \in ExposedSets(ToInt(call.width), ToInt(call.height)),
        garbage \in GarbagePixels :
       Return(ApplyHandler(heap, 1, 2, call, exposed, garbage))

NextComposite == CompositeUpright \/ CompositeRotated

SpecComposite == InitComposite /\ [][NextComposite]_vars

---------------------------------------------------------------------------
(* Reading the compositing step *)

\* The call has returned.
Returned == ret # 0

\* The call reached the blend (no internal failure).
Composited == Returned /\ locals.k = "locals"

\* The caller's avatar and accessory as they were passed.
AvatarBefore == before[1]

AccessoryBefore == before[2]

\* The returned image.
Result == heap[ret]

\* The size the accessory was asked to have, in whole pixels.
AskedWidth == ToInt(call.width)

AskedHeight == ToInt(call.height)

---------------------------------------------------------------------------
(* C12 *)

\* C12: for every placement, whatever the center and the size, the region
\* that compositing reads and writes lies inside the base: its columns are
\* within 0 .. base width - 1, its rows within 0 .. base height - 1, it is
\* no larger than the accessory, and the result has the base's dimensions.
\* A call that fails internally writes nothing.
C12_RegionInsideBase ==
  /\ Composited =>
       /\ 0 <= locals.x_offset
       /\ 0 <= locals.y_offset
       /\ 0 <= locals.roi_width
       /\ 0 <= locals.roi_height
       /\ locals.x_offset + locals.roi_width <= AvatarBefore.w
       /\ locals.y_offset + locals.roi_height <= AvatarBefore.h
       /\ locals.roi_width <= locals.resized_accessory.w
       /\ locals.roi_height <= locals.resized_accessory.h
       /\ DOMAIN Result.px = DOMAIN AvatarBefore.px
  /\ (Returned /\ ~Composited) => Result = AvatarBefore

\* An accessory wider and higher than the base, centered outside the image:
\* the region is the whole base.
C12_Witness ==
  /\ Composited
  /\ call.x < 0 /\ call.y > Scale * AvatarBefore.h
  /\ AskedWidth > AvatarBefore.w /\ AskedHeight > AvatarBefore.h
  /\ locals.x_offset = 0 /\ locals.roi_width = AvatarBefore.w
  /\ locals.y_offset = 0 /\ locals.roi_height = AvatarBefore.h

---------------------------------------------------------------------------
(* C13 *)

\* The clamp policy on one axis: dim is the base's extent, size the
\* accessory's, raw the offset before clamping.
ClampPolicy(dim, size, raw, offset, extent) ==
  IF size <= dim
  THEN /\ offset \in 0 .. dim - size
       /\ offset = (IF raw < 0 THEN 0
                    ELSE IF raw > dim - size THEN dim - size ELSE raw)
       /\ extent = size
  ELSE /\ offset = 0
       /\ extent = dim

\* C13: on each axis independently, an accessory that fits in the base has
\* its offset clamped into [0, base dimension - accessory dimension] and is
\* composited whole; an accessory larger than the base on an axis has offset
\* 0 there and only the overlapping part is composited.  The accessory keeps
\* the size it was resized to, and its opaque pixels appear in the result at
\* the offset, unshifted.
C13_ClampPolicy ==
  Composited =>
     /\ locals.resized_accessory.w = AskedWidth
     /\ locals.resized_accessory.h = AskedHeight
     /\ ClampPolicy(AvatarBefore.w, AskedWidth, locals.x_raw,
                    locals.x_offset, locals.roi_width)
     /\ ClampPolicy(AvatarBefore.h, AskedHeight, locals.y_raw,
                    locals.y_offset, locals.roi_height)
     /\ \A rc \in DOMAIN locals.resized_accessory.px :
          (/\ rc[1] < locals.roi_height
           /\ rc[2] < locals.roi_width
           /\ locals.resized_accessory.px[rc].a = 255)
          => LET under == Result.px[<<locals.y_offset + rc[1],
                                      locals.x_offset + rc[2]>>]
                 over == locals.resized_accessory.px[rc]
             IN under.b = over.b /\ under.g = over.g /\ under.r = over.r

\* An accessory that fits across and is pushed back from beyond the right
\* edge, while it is higher than the base and cut to the base's height.
C13_Witness ==
  /\ Composited
  /\ AskedWidth <= AvatarBefore.w
  /\ locals.x_raw > AvatarBefore.w - AskedWidth
  /\ locals.x_offset = AvatarBefore.w - AskedWidth
  /\ locals.roi_width = AskedWidth
  /\ AskedHeight > AvatarBefore.h
  /\ locals.y_offset = 0
  /\ locals.roi_height = AvatarBefore.h

---------------------------------------------------------------------------
(* C14 *)

\* Every alpha byte of the image is a.
AlphaEverywhere(img, a) == \A rc \in DOMAIN img.px : img.px[rc].a = a

\* The placement keeps the accessory's own size, unrotated, inside the base.
NativeInside ==
  /\ Composited
  /\ call.rotation.sgn = 0
  /\ AskedWidth = AccessoryBefore.w /\ AskedHeight = AccessoryBefore.h
  /\ locals.x_offset = locals.x_raw /\ locals.y_offset = locals.y_raw
  /\ locals.roi_width = AskedWidth /\ locals.roi_height = AskedHeight

\* C14: compositing an accessory whose alpha is 0 everywhere leaves the base
\* byte-for-byte unchanged, and compositing an accessory whose alpha is 255
\* everywhere at its own size, unrotated and inside the base makes the RGB
\* of the overlapping region equal to the accessory's RGB.
C14_AlphaCorrect ==
  /\ (Returned /\ AlphaEverywhere(AccessoryBefore, 0)) =>
        Result = AvatarBefore
  /\ (NativeInside /\ AlphaEverywhere(AccessoryBefore, 255)) =>
        \A rc \in DOMAIN AccessoryBefore.px :
           LET under == Result.px[<<locals.y_offset + rc[1],
                                    locals.x_offset + rc[2]>>]
               over == AccessoryBefore.px[rc]
           IN under.b = over.b /\ under.g = over.g /\ under.r = over.r

---------------------------------------------------------------------------
(* C15 *)

\* The pixel lies in the region of the base that the blend was applied to.
InRegion(rc) ==
  /\ Composited
  /\ rc[1] \in locals.y_offset .. locals.y_offset + locals.roi_height - 1
  /\ rc[2] \in locals.x_offset .. locals.x_offset + locals.roi_width - 1

\* C15: compositing changes only the colour bytes of pixels inside the
\* overlapping region: the alpha byte of every pixel of the result is the
\* base's, and every pixel outside the region equals the base's in all four
\* channels.
C15_OnlyRegionColourChanges ==
  Returned =>
     \A rc \in DOMAIN AvatarBefore.px :
        /\ Result.px[rc].a = AvatarBefore.px[rc].a
        /\ ~InRegion(rc) => Result.px[rc] = AvatarBefore.px[rc]

\* A half-transparent accessory over part of the base: a colour byte in the
\* region changed, over a base pixel whose alpha differs from the
\* accessory's.
C15_Witness ==
  /\ Composited
  /\ AlphaEverywhere(AccessoryBefore, 128)
  /\ locals.roi_width < AvatarBefore.w
  /\ \E rc \in DOMAIN AvatarBefore.px :
        /\ InRegion(rc)
        /\ Result.px[rc].b # AvatarBefore.px[rc].b
        /\ AvatarBefore.px[rc].a = 200

---------------------------------------------------------------------------
(* C16 *)

\* C16: whether the compositing succeeds or fails internally, the handler
\* returns an array that is neither the caller's avatar nor the caller's
\* accessory, and both of the caller's arrays hold what they held before.
C16_ValueSemantics ==
  Returned =>
     /\ ret \notin {1, 2}
     /\ heap[1] = AvatarBefore
     /\ heap[2] = AccessoryBefore

\* An internal failure (a size below one pixel): the array returned is the
\* handler's own copy of the avatar.
C16_Witness ==
  /\ Returned /\ ~Composited
  /\ AskedWidth = 0
  /\ ret = 3
  /\ Result = AvatarBefore

---------------------------------------------------------------------------
(* Accessory references.  Here an array is held by its shape and by a name *)
(* for its contents; the pixels are the compositing step's concern.        *)

\* Most calls made on one VirtualFitter.
MaxCalls == 2

\* A numpy array: shape is (h, w, channels), or (h, w) for a 2-D array.
Array(shape, data) == [k |-> "ndarray", shape |-> shape, data |-> data]

\* Contents that were handed in or read from a file, by name.
Given(name) == [k |-> "given", name |-> name]

Str(s) == [k |-> "str", s |-> s]

\* {'path': ..., 'image': ...}; a missing key is Absent.
AccessoryDict(path, img) == [k |-> "dict", path |-> path, image |-> img]

\* The files of the model: images with and without alpha, a grayscale
\* image, a file that holds no image, and a path without a file.
Paths == {"rgba.png", "rgb.jpg", "gray.png", "broken.png", "missing.png"}

\* os.path.exists(path)
Exists(path) == path # "missing.png"

\* cv2.imread(path, cv2.IMREAD_UNCHANGED) of an existing file: the decoded
\* array with the file's own channels, or None when the data is no image.
CvImread(path) ==
  CASE path = "rgba.png" -> Array(<<48, 64, 4>>, Given(path))
    [] path = "rgb.jpg" -> Array(<<48, 64, 3>>, Given(path))
    [] path = "gray.png" -> Array(<<48, 64>>, Given(path))
    [] OTHER -> None

\* _create_placeholder_accessory(): a transparent 100 x 100 array with a
\* filled rectangle of colour (255, 0, 255, 128) from (10, 10) to (90, 90)
\* and a border of colour (255, 255, 255, 200) drawn over its edge.
_create_placeholder_accessory ==
  Array(<<100, 100, 4>>,
        [k |-> "placeholder", fill |-> Pixel(255, 0, 255, 128),
         border |-> Pixel(255, 255, 255, 200)])

\* A call that returned value, having decoded the files in read.
Resolved(value, read) ==
  [outcome |-> "returned", error |-> "", value |-> value, read |-> read]

\* A call that raised.
Failed(error, read) ==
  [outcome |-> "raised", error |-> error, value |-> None, read |-> read]

\* Lines 127-133: accessory_image.shape[2] == 3 adds an opaque alpha plane.
\* None has no shape and a 2-D array has no shape[2].
EnsureAlpha(accessory_image, read) ==
  IF accessory_image.k # "ndarray"
  THEN Failed("AttributeError", read)
  ELSE IF Len(accessory_image.shape) < 3
  THEN Failed("IndexError", read)
  ELSE IF accessory_image.shape[3] = 3
  THEN Resolved(Array(<<accessory_image.shape[1],
                        accessory_image.shape[2], 4>>,
                      [k |-> "dstack", rgb |-> accessory_image.data]),
                read)
  ELSE Resolved(accessory_image, read)

\* Faulty variant: a dict that carries an image is not resolved by its path.
UsesPathUnlessImage(accessory) ==
  accessory.k = "dict" /\ HasKey(accessory.path) /\ ~HasKey(accessory.image)

\* Line 107: isinstance(accessory, dict) and 'path' in accessory
UsesPath(accessory) == accessory.k = "dict" /\ HasKey(accessory.path)

\* _get_accessory_image(accessory) with self.accessory_cache = cache.
_get_accessory_image(accessory, cache) ==
  IF accessory.k = "ndarray"
  THEN EnsureAlpha(accessory, {})
  ELSE IF UsesPath(accessory)
  THEN LET path == accessory.path.s
       IN IF path \in DOMAIN cache
          THEN Resolved(cache[path], {})
          ELSE IF Exists(path)
          THEN EnsureAlpha(CvImread(path), {path})
          ELSE EnsureAlpha(_create_placeholder_accessory, {})
  ELSE IF accessory.k = "dict" /\ HasKey(accessory.image)
  THEN EnsureAlpha(accessory.image, {})
  ELSE EnsureAlpha(_create_placeholder_accessory, {})

\* Faulty variant: the decoded image is stored under its path.
CacheAfterStoring(cache, reply) ==
  IF reply.outcome = "returned"
  THEN [path \in reply.read |-> reply.value] @@ cache
  ELSE cache

\* self.accessory_cache after a call: no line of the class stores into it.
CacheAfter(cache, reply) == cache

\* Faulty variant: a size below one pixel does not stop the compositing.
PlaceByShapeAnySize(base_image, accessory_image, p) ==
  IF accessory_image.k = "None" \/ base_image.k = "None"
  THEN base_image
  ELSE IF accessory_image.shape[3] < 4
  THEN base_image
  ELSE IF Len(base_image.shape) < 3 \/ base_image.shape[3] < 3
  THEN base_image
  ELSE Array(base_image.shape,
             [k |-> "composite", under |-> base_image.data,
              over |-> accessory_image.data])

\* _place_accessory on shapes: the resize fails for a size below one pixel,
\* line 674 fails for an accessory without channel 3 and line 678 for a base
\* without channels 0 .. 2; each failure is caught and returns base_image.
PlaceByShape(base_image, accessory_image, p) ==
  IF accessory_image.k = "None" \/ base_image.k = "None"
  THEN base_image
  ELSE IF ToInt(p.width) <= 0 \/ ToInt(p.height) <= 0
  THEN base_image
  ELSE IF accessory_image.shape[3] < 4
  THEN base_image
  ELSE IF Len(base_image.shape) < 3 \/ base_image.shape[3] < 3
  THEN base_image
  ELSE Array(base_image.shape,
             [k |-> "composite", under |-> base_image.data,
              over |-> accessory_image.data])

\* Lines 78-91: the handler of the category, up to its placement.
Dispatch(category_enum, img, lm) ==
  CASE category_enum = "clothing" -> _apply_clothing(img, lm)
    [] category_enum = "jewelry" -> _apply_jewelry(img, lm)
    [] category_enum = "glasses" -> _apply_glasses(img, lm)
    [] category_enum = "hats" -> _apply_hat(img, lm)
    [] category_enum = "watches" -> _apply_watch(img, lm)
    [] OTHER -> _apply_generic_accessory(img)

\* apply_accessory(avatar_image, accessory, category, landmarks).  A raise in
\* the resolver or in a placement rule is not caught and goes to the caller.
apply_accessory(avatar_image, accessory, cat, lm, cache) ==
  IF avatar_image.k = "None" \/ accessory.k = "None"
  THEN Failed("ValueError", {})
  ELSE
    LET resolved == _get_accessory_image(accessory, cache)
        img == [w |-> avatar_image.shape[2], h |-> avatar_image.shape[1]]
        chosen == Dispatch(CategoryEnum(cat), img, lm)
    IN IF resolved.outcome = "raised"
       THEN resolved
       ELSE IF chosen.outcome = "raised"
       THEN Failed("TypeError", resolved.read)
       ELSE Resolved(PlaceByShape(avatar_image, resolved.value,
                                  chosen.placement),
                     resolved.read)

\* No handler was reached.
NotChosen == [outcome |-> "none", placement |-> None, source |-> "none"]

\* The placement the handler of the call chose, when the call reached one.
HandlerChoice(avatar_image, accessory, cat, lm, cache) ==
  IF avatar_image.k = "None" \/ accessory.k = "None"
  THEN NotChosen
  ELSE IF _get_accessory_image(accessory, cache).outcome = "raised"
  THEN NotChosen
  ELSE Dispatch(CategoryEnum(cat),
                [w |-> avatar_image.shape[2], h |-> avatar_image.shape[1]],
                lm)

---------------------------------------------------------------------------
(* Inputs of the calls made on a VirtualFitter *)

\* Avatars: absent, RGBA, RGB, 2-D, and an RGBA avatar of a few pixels.
Avatars ==
  {None,
   Array(<<600, 400, 4>>, Given("avatar")),
   Array(<<600, 400, 3>>, Given("avatar")),
   Array(<<600, 400>>, Given("avatar")),
   Array(<<6, 8, 4>>, Given("avatar"))}

\* Arrays handed in directly or under the 'image' key.
AccessoryArrays ==
  {Array(<<100, 100, 4>>, Given("accessory")),
   Array(<<100, 100, 3>>, Given("accessory")),
   Array(<<100, 100, 1>>, Given("accessory")),
   Array(<<100, 100>>, Given("accessory"))}

\* What a caller passes as accessory: nothing, an array, a dict with a
\* path, the server's dict with a path and an image, a dict with an image,
\* an empty dict, or a value of another type.
AccessoryRefs ==
  {None, Str("hat-17"), AccessoryDict(Absent, Absent),
   AccessoryDict(Absent, None),
   AccessoryDict(Str("rgba.png"), Array(<<100, 100, 4>>, Given("zeros"))),
   AccessoryDict(Str("missing.png"), Array(<<100, 100, 4>>, Given("zeros")))}
  \cup AccessoryArrays
  \cup {AccessoryDict(Str(path), Absent) : path \in Paths}
  \cup {AccessoryDict(Absent, img) : img \in AccessoryArrays}

\* Faces for the glasses rule: both eye centers known, and one eye whose
\* center landmark is None.
EyesKnown ==
  Subset(FaceFeatures(Eye(Pt(100, 100, 0)), Eye(Pt(200, 100, 0)), Oval(<< >>)))

EyeCenterNull ==
  Subset(FaceFeatures(Eye(None), Eye(Pt(200, 100, 0)), Oval(<< >>)))

\* Eye centers one pixel apart: the glasses are 2.2 pixels wide and 0.88
\* high.
EyesOnePixelApart ==
  Subset(FaceFeatures(Eye(Pt(100, 100, 0)), Eye(Pt(101, 100, 0)), Oval(<< >>)))

\* Both eye centers at the same x: the glasses are 0 pixels wide and high.
EyesSameX ==
  Subset(FaceFeatures(Eye(Pt(100, 100, 0)), Eye(Pt(100, 200, 0)), Oval(<< >>)))

\* Both shoulders at the same x: the clothing is 0 pixels wide.
ShouldersSameX ==
  Subset(PoseFeatures(Pair(Pt(100, 200, 90), Pt(100, 300, 90)), Absent,
                      Pair(None, None), None))

\* All face-oval points at the same x: the hat is 0 pixels wide.
OvalSameX ==
  Subset(FaceFeatures(Eye(None), Eye(None),
                      Oval(<<Pt(200, 100, 0), Pt(200, 300, 0)>>)))

\* Category and landmarks of a call.
Scenarios ==
  {<<"other", None>>, <<"shoes", None>>, <<"glasses", None>>,
   <<"glasses", LandmarkSet(EyesKnown, None)>>,
   <<"glasses", LandmarkSet(EyeCenterNull, None)>>}

\* Category and landmarks of a call whose placement rule gives a size below
\* one pixel.
ZeroSizeScenarios ==
  {<<"glasses", LandmarkSet(EyesOnePixelApart, None)>>,
   <<"glasses", LandmarkSet(EyesSameX, None)>>,
   <<"clothing", LandmarkSet(None, ShouldersSameX)>>,
   <<"hats", LandmarkSet(OvalSameX, None)>>}

\* The accessories passed with them: a 4-channel array, a 1-channel array,
\* and the server's dict for a file that is missing.
ZeroSizeRefs ==
  {Array(<<100, 100, 4>>, Given("accessory")),
   Array(<<100, 100, 1>>, Given("accessory")),
   AccessoryDict(Str("missing.png"), Array(<<100, 100, 4>>, Given("zeros")))}

\* The arguments (avatar_image, accessory, <<category, landmarks>>) of the
\* calls of apply_accessory.
ApplyCalls ==
  (Avatars \X AccessoryRefs \X Scenarios)
  \cup (Avatars \X ZeroSizeRefs \X ZeroSizeScenarios)

---------------------------------------------------------------------------
(* State machine: the calls made on one VirtualFitter.                     *)

InitResolve ==
  /\ PlacementIdle
  /\ CompositorIdle
  /\ ServerIdle
  /\ accessory_cache = <<>>
  /\ decodes = [path \in Paths |-> 0]
  /\ calls = 0
  /\ last = None

\* The call's record and its effect on the fitter.
Record(op, avatar_image, accessory, cat, lm, resolved, chosen, reply) ==
  /\ last' = [k |-> "call", op |-> op, avatar |-> avatar_image,
              accessory |-> accessory, category |-> cat, landmarks |-> lm,
              accessory_image |-> resolved,
              placement |-> chosen.placement, source |-> chosen.source,
              read |-> reply.read,
              outcome |-> reply.outcome, error |-> reply.error,
              value |-> reply.value]
  /\ decodes' = [path \in Paths |->
                   decodes[path] + (IF path \in reply.read THEN 1 ELSE 0)]
  /\ calls' = calls + 1
  /\ accessory_cache' = CacheAfter(accessory_cache, reply)
  /\ UNCHANGED placementVars
  /\ UNCHANGED compositorVars
  /\ UNCHANGED serverVars

\* A call of _get_accessory_image.
Resolve ==
  /\ calls < MaxCalls
  /\ \E accessory \in AccessoryRefs :
       LET reply == _get_accessory_image(accessory, accessory_cache)
       IN Record("resolve", None, accessory, "", None, reply.value,
                 NotChosen, reply)

\* A call of apply_accessory.
Apply ==
  /\ calls < MaxCalls
  /\ \E args \in ApplyCalls :
       LET avatar_image == args[1]
           accessory == args[2]
           scenario == args[3]
           resolved == _get_accessory_image(accessory, accessory_cache)
           reply == apply_accessory(avatar_image, accessory, scenario[1],
                                    scenario[2], accessory_cache)
       IN Record("apply", avatar_image, accessory, scenario[1], scenario[2],
                 IF avatar_image.k = "None" \/ accessory.k = "None"
                 THEN None ELSE resolved.value,
                 HandlerChoice(avatar_image, accessory, scenario[1],
                               scenario[2], accessory_cache),
                 reply)

NextResolve == Resolve \/ Apply

SpecResolve == InitResolve /\ [][NextResolve]_vars

---------------------------------------------------------------------------
(* Reading the calls *)

\* The last call was apply_accessory / _get_accessory_image.
Applied == last.k = "call" /\ last.op = "apply"

ResolvedCall == last.k = "call" /\ last.op = "resolve"

\* The value is an array of shape (h, w, n).
HasChannels(v, n) ==
  v.k = "ndarray" /\ Len(v.shape) = 3 /\ v.shape[3] = n

\* A valid 4-channel raster.
ValidRaster(v) == HasChannels(v, 4)

\* The array a reference carries itself, None when it carries none.
CarriedImage(accessory) ==
  IF accessory.k = "ndarray" THEN accessory
  ELSE IF accessory.k = "dict" /\ ~HasKey(accessory.path)
          /\ HasKey(accessory.image)
  THEN accessory.image
  ELSE None

---------------------------------------------------------------------------
(* C17 *)

\* The avatar is absent or is no 4-channel raster.
BaseAbsentOrMalformed == ~ValidRaster(last.avatar)

\* The accessory is absent, or the image it carries is None or an array
\* that has neither 4 channels nor the 3 channels the resolver accepts.
AccessoryAbsentOrMalformed ==
  \/ last.accessory.k = "None"
  \/ /\ last.accessory.k = "ndarray" \/ HasKey(last.accessory.image)
     /\ ~HasKey(last.accessory.path)
     /\ ~ValidRaster(CarriedImage(last.accessory))
     /\ ~HasChannels(CarriedImage(last.accessory), 3)

\* C17: when the base image or the accessory is absent or malformed,
\* apply_accessory does not raise and returns the base image unchanged.
C17_FailureIsNoOp ==
  (Applied /\ (BaseAbsentOrMalformed \/ AccessoryAbsentOrMalformed)) =>
     (last.outcome = "returned" /\ last.value = last.avatar)

---------------------------------------------------------------------------
(* C18 *)

\* An array with a channel count other than 4 reached _place_accessory as
\* its base or as its accessory.
WrongChannelsAtCompositor ==
  /\ Applied
  /\ last.avatar.k = "ndarray"
  /\ last.accessory_image.k = "ndarray"
  /\ ~ValidRaster(last.avatar) \/ ~ValidRaster(last.accessory_image)

\* C18: a wrong channel count at the compositor's inputs reaches the caller
\* of apply_accessory as an InvalidImageFormat error, and no other error
\* reaches the caller: a call raises only for that reason, so missing
\* landmarks and unresolvable accessories raise nothing.
C18_OnlyInvalidImageFormat ==
  Applied =>
     /\ WrongChannelsAtCompositor =>
          (last.outcome = "raised" /\ last.error = "InvalidImageFormat")
     /\ last.outcome = "raised" =>
          (last.error = "InvalidImageFormat" /\ WrongChannelsAtCompositor)

---------------------------------------------------------------------------
(* C19 *)

\* C19: whatever calls have been made, the file at each path has been
\* decoded at most once.
C19_DecodedAtMostOnce == \A path \in Paths : decodes[path] <= 1

---------------------------------------------------------------------------
(* C20 *)

\* The reference names a path without a file or with a file that holds no
\* image, or is a dict with neither a path nor an image.
Unresolvable(accessory) ==
  /\ accessory.k = "dict"
  /\ IF HasKey(accessory.path)
     THEN ~Exists(accessory.path.s) \/ CvImread(accessory.path.s) = None
     ELSE ~HasKey(accessory.image)

\* The 100 x 100 4-channel placeholder: a magenta, semi-transparent filled
\* rectangle with a white border.
IsPlaceholder(v) ==
  /\ v.k = "ndarray"
  /\ v.shape = <<100, 100, 4>>
  /\ v.data.k = "placeholder"
  /\ v.data.fill.b = 255 /\ v.data.fill.g = 0 /\ v.data.fill.r = 255
  /\ v.data.fill.a \in 1 .. 254
  /\ v.data.border.b = 255 /\ v.data.border.g = 255
  /\ v.data.border.r = 255

\* C20: every unresolvable reference resolves, without raising, to the
\* placeholder.
C20_UnresolvableGivesPlaceholder ==
  (ResolvedCall /\ Unresolvable(last.accessory)) =>
     (last.outcome = "returned" /\ IsPlaceholder(last.value))

---------------------------------------------------------------------------
(* C21 *)

\* C21: every image the resolver returns, to be handed to compositing, has
\* exactly 4 channels: a 3-channel source comes back with an opaque alpha
\* plane added, and an image with 1 or 2 channels or without a channel axis
\* is not passed on.
C21_ResolverGivesFourChannels ==
  (last.k = "call" /\ last.accessory_image.k = "ndarray") =>
     /\ ValidRaster(last.accessory_image)
     /\ HasChannels(CarriedImage(last.accessory), 3) =>
          /\ last.accessory_image.data.k = "dstack"
          /\ last.accessory_image.data.rgb = CarriedImage(last.accessory).data

---------------------------------------------------------------------------
(* C27 *)

\* A call that resolved a path-based reference whose file exists and can be
\* decoded.
ResolvedFromStorage ==
  /\ last.k = "call"
  /\ UsesPath(last.accessory)
  /\ Exists(last.accessory.path.s)
  /\ last.accessory_image.k = "ndarray"

\* C27: in every reachable state of a VirtualFitter the accessory cache is
\* empty, no call inserts an entry, and so every resolution of a path-based
\* reference to an existing file reads storage again: the cache-hit branch is
\* never taken.
C27_CacheStaysEmpty ==
  /\ DOMAIN accessory_cache = {}
  /\ ResolvedFromStorage => last.accessory.path.s \in last.read

\* A second call has resolved a path whose file was already decoded by an
\* earlier call, and decoded it again.
C27_Witness ==
  /\ ResolvedFromStorage
  /\ calls >= 2
  /\ last.accessory.path.s \in last.read
  /\ decodes[last.accessory.path.s] >= 2

---------------------------------------------------------------------------
(* C29 *)

\* A size, in hundredths of a pixel, that int() truncates to 0.
TruncatesToZero(size) == size > -Scale /\ size < Scale

\* A call of apply_accessory whose handler took its placement from the
\* landmarks, with a width or a height that truncates to 0.
ZeroSizeFromLandmarks ==
  /\ Applied
  /\ last.source = "landmark"
  /\ \/ TruncatesToZero(last.placement.width)
     \/ TruncatesToZero(last.placement.height)

\* C29: when a landmark-derived placement has a width or height that
\* truncates to 0, apply_accessory does not fall back to the default placement
\* and does not raise: it returns an image identical to the input avatar, with
\* nothing composited.
C29_ZeroSizeLeavesAvatar ==
  ZeroSizeFromLandmarks =>
    /\ last.outcome = "returned"
    /\ last.value = last.avatar

\* A zero-size placement from the landmarks met a base and an accessory that
\* would otherwise have been composited, and the avatar came back unchanged.
C29_Witness ==
  /\ ZeroSizeFromLandmarks
  /\ last.placement.width = 0
  /\ ValidRaster(last.avatar)
  /\ HasChannels(last.accessory_image, 4)
  /\ last.outcome = "returned"
  /\ last.value = last.avatar

---------------------------------------------------------------------------
(* C28 *)

\* A call whose reference is a dict carrying both a 'path' and an embedded
\* 'image', the shape get_accessory_by_id builds, and that reached the
\* resolver.
PathAndImage ==
  /\ last.k = "call"
  /\ last.accessory.k = "dict"
  /\ HasKey(last.accessory.path)
  /\ HasKey(last.accessory.image)
  /\ (last.op = "apply" => last.avatar.k # "None")

\* The call composited the array whose data is `data` onto the avatar.
CompositedData(data) ==
  /\ last.outcome = "returned"
  /\ last.value.k = "ndarray"
  /\ last.value.data.k = "composite"
  /\ last.value.data.over = data

\* C28: for a reference carrying both a 'path' and an embedded 'image' the
\* path takes precedence: the embedded image is never the resolved image and
\* is never composited, and when the path's file is missing the placeholder
\* is resolved in its place and is what a call that composites anything
\* composites.
C28_PathTakesPrecedence ==
  PathAndImage =>
    /\ last.accessory_image # last.accessory.image
    /\ ~CompositedData(last.accessory.image.data)
    /\ ~Exists(last.accessory.path.s) =>
         /\ IsPlaceholder(last.accessory_image)
         /\ last.read = {}
         /\ (/\ last.op = "apply"
             /\ last.outcome = "returned"
             /\ last.value # last.avatar) =>
              CompositedData(_create_placeholder_accessory.data)

\* A try-on with the server's reference shape whose file is missing has
\* composited the placeholder.
C28_Witness ==
  /\ PathAndImage
  /\ last.op = "apply"
  /\ ~Exists(last.accessory.path.s)
  /\ last.accessory.image.k = "ndarray"
  /\ CompositedData(_create_placeholder_accessory.data)

---------------------------------------------------------------------------
(* C24 *)

\* The width and height of the accessory after the resize (the rotation keeps
\* them).
ResizedWidth == locals.resized_accessory.w

ResizedHeight == locals.resized_accessory.h

\* n is an integer nearest to the size v, given in hundredths of a pixel; a
\* size half-way between two integers has both as nearest.
NearestTo(v, n) ==
  2 * v - Scale <= 2 * Scale * n /\ 2 * Scale * n <= 2 * v + Scale

\* n is the size v with its fraction cut off.
CutOff(v, n) == Scale * n <= v /\ v < Scale * (n + 1)

\* C24 as claimed: the accessory is resized to the placement's width and
\* height, each rounded to the nearest integer.
C24_ResizeRounds ==
  Composited =>
    /\ NearestTo(call.width, ResizedWidth)
    /\ NearestTo(call.height, ResizedHeight)

\* C24, amended: the accessory is resized to (int(width), int(height)), each
\* size truncated toward zero (1.7 gives 1 pixel), and a size that truncates
\* to 0 leaves nothing composited.
C24_ResizeTruncates ==
  /\ Composited =>
       /\ CutOff(call.width, ResizedWidth)
       /\ CutOff(call.height, ResizedHeight)
  /\ (Returned /\ (call.width < Scale \/ call.height < Scale)) =>
       ~Composited

\* An accessory asked to be 2.7 x 1.7 pixels was composited 2 x 1 pixels
\* large.
C24_Witness ==
  /\ Composited
  /\ call.width = 270 /\ ResizedWidth = 2
  /\ call.height = 170 /\ ResizedHeight = 1

---------------------------------------------------------------------------
(* C25 *)

\* n is the value d, in hundredths of `unit` pixels, truncated toward zero.
TruncatedTo(d, unit, n) ==
  IF d >= 0
  THEN unit * n <= d /\ d < unit * (n + 1)
  ELSE unit * (n - 1) < d /\ d <= unit * n

\* n is the floor of d.
FloorOf(d, unit, n) == unit * n <= d /\ d < unit * (n + 1)

\* n is an integer nearest to d.
NearestOf(d, unit, n) == 2 * (d - unit * n) \in -unit .. unit

\* n is center - size / 2, the exact half, made an integer by truncation, by
\* the floor or by rounding to the nearest.  The exact value is taken in
\* half-hundredths: 2 * center - size.
ExactOffset(center, size, n) ==
  LET exact == 2 * center - size
  IN \/ TruncatedTo(exact, 2 * Scale, n)
     \/ FloorOf(exact, 2 * Scale, n)
     \/ NearestOf(exact, 2 * Scale, n)

\* C25 as claimed: before clamping, the top-left offset is
\* (x - width/2, y - height/2), with the exact halves, rounded to an integer.
C25_OffsetFromExactHalf ==
  Composited =>
    /\ ExactOffset(call.x, call.width, locals.x_raw)
    /\ ExactOffset(call.y, call.height, locals.y_raw)

\* n is int(center - size // 2): the half of the size is floored to a whole
\* number first, and the difference is then truncated toward zero.
FlooredHalfOffset(center, size, n) ==
  \E half \in 0 .. MaxSide + 3 :
    /\ 2 * Scale * half <= size /\ size < 2 * Scale * (half + 1)
    /\ TruncatedTo(center - Scale * half, Scale, n)

\* C25, amended: before clamping, the top-left offset is
\* (int(x - width // 2), int(y - height // 2)): the half of the width and of
\* the height is floored to a whole number, and the difference is truncated
\* toward zero.
C25_OffsetFromFlooredHalf ==
  Composited =>
    /\ FlooredHalfOffset(call.x, call.width, locals.x_raw)
    /\ FlooredHalfOffset(call.y, call.height, locals.y_raw)

\* A 1.7 pixels wide accessory centered at x = 2.0 got the offset 2 (the
\* exact half gives 1.15), and a negative y gave a negative offset.
C25_Witness ==
  /\ Composited
  /\ call.x = 200 /\ call.width = 170 /\ locals.x_raw = 2
  /\ call.y < 0 /\ locals.y_raw < 0

---------------------------------------------------------------------------
(* backend/server.py: avatars_cache and the try-on endpoint                *)
(*                                                                         *)
(* Images are held pixel by pixel, as in the compositing step.  The        *)
(* accessory files the requests name exist and hold a uniform, fully       *)
(* opaque image, or data that cannot be decoded; the landmarks of the      *)
(* stored avatars have level eyes and shoulders, so that no handler        *)
(* rotates.                                                                *)

\* Requests served one after the other.
MaxRequests == 2

\* avatar_id = f"avatar_{int(time.time() * 1000)}" of the avatars that are
\* generated, in the order of their generation (at different times).
AvatarIds == <<"avatar_1", "avatar_2">>

AvatarId(n) == AvatarIds[n]

AvatarPixel(row, col) == Pixel(10 + row, 100 + col, 200, 255)

\* The 'image' of a generated avatar: 4 channels, rows x cols pixels.
AvatarImage(rows, cols) ==
  [h |-> rows, w |-> cols,
   px |-> [rc \in (0 .. rows - 1) \X (0 .. cols - 1) |->
             AvatarPixel(rc[1], rc[2])]]

\* Nothing was detected on the avatar.
NothingDetected == LandmarkSet(None, None)

\* A face whose left eye has no center, and a pose with level shoulders and
\* hips.
PersonDetected ==
  LandmarkSet(
    Subset(FaceFeatures(Eye(None), Eye(Pt(6, 3, 0)), Oval(<< >>))),
    Subset(PoseFeatures(Pair(Pt(3, 3, 90), Pt(6, 3, 90)),
                        Pair(Pt(3, 8, 90), Pt(6, 8, 90)),
                        Pair(None, None), None)))

\* avatar_generator.generate(...): {'image': ..., 'landmarks': ...}
GeneratedAvatars ==
  {[image |-> AvatarImage(10, 10), landmarks |-> lm] :
     lm \in {NothingDetected, PersonDetected}}

\* os.path.join('accessories', category, f"{accessory_id}.png")
AccessoryPath(cat, accessory_id) == <<"accessories", cat, accessory_id>>

\* get_accessory_by_id(accessory_id, category): a dict is built for every id.
get_accessory_by_id(accessory_id, cat) ==
  [k |-> "dict", id |-> accessory_id, category |-> cat,
   path |-> [k |-> "str", s |-> AccessoryPath(cat, accessory_id)],
   image |-> Array(<<100, 100, 4>>, Given("zeros"))]

\* A uniform, fully opaque image of the colour (pb, pg, pr).
OpaqueImage(rows, cols, pb, pg, pr) ==
  [h |-> rows, w |-> cols,
   px |-> [rc \in (0 .. rows - 1) \X (0 .. cols - 1) |->
             Pixel(pb, pg, pr, 255)]]

\* cv2.imread(path, cv2.IMREAD_UNCHANGED) of the accessory files: every
\* category directory holds red.png and blue.png, 4-channel images, and
\* broken.png, which is no image (imread returns None).
DecodedFile(path) ==
  CASE path[3] = "red" -> OpaqueImage(2, 2, 0, 0, 250)
    [] path[3] = "blue" -> OpaqueImage(1, 1, 250, 0, 0)
    [] OTHER -> None

\* The accessory_id and category of the complete requests; "shoes" is no
\* AccessoryType.
Fittings ==
  {<<"red", "clothing">>, <<"blue", "clothing">>, <<"blue", "shoes">>,
   <<"red", "glasses">>, <<"broken", "clothing">>}

\* request.json of a try-on request.
TryOnData(avatar_id, accessory_id, cat) ==
  [k |-> "dict", avatar_id |-> avatar_id, accessory_id |-> accessory_id,
   category |-> cat]

\* The bodies of the requests made: no JSON, a missing parameter, an avatar
\* that was never generated, and complete requests.
Requests ==
  {None,
   TryOnData(Str(AvatarId(1)), Absent, Str("clothing")),
   TryOnData(Str("avatar_0"), Str("red"), Str("clothing"))}
  \cup {TryOnData(Str(AvatarId(n)), Str(fitting[1]), Str(fitting[2])) :
          n \in 1 .. Len(AvatarIds), fitting \in Fittings}

\* data.get(key) is truthy.
Provided(v) == v.k = "str" /\ v.s # ""

\* Lines 214-228: the status of the error response, 0 when the request
\* passes the checks.
Rejected(cache, data) ==
  IF data.k # "dict"
  THEN 400
  ELSE IF ~(/\ Provided(data.avatar_id)
            /\ Provided(data.accessory_id)
            /\ Provided(data.category))
  THEN 400
  ELSE IF data.avatar_id.s \notin DOMAIN cache
  THEN 404
  ELSE 0

\* The outcome of apply_accessory on pixels.
FitRaised(error) ==
  [outcome |-> "raised", error |-> error, value |-> None, locals |-> None]

FitReturned(value, loc) ==
  [outcome |-> "returned", error |-> "", value |-> value, locals |-> loc]

\* apply_accessory from line 78 on, with the accessory image resolved: the
\* handler of the category chooses the placement and composites.
FitResolved(avatar_image, accessory_image, cat, lm) ==
  LET chosen == Dispatch(CategoryEnum(cat),
                         [w |-> avatar_image.w, h |-> avatar_image.h], lm)
  IN IF chosen.outcome = "raised"
     THEN FitRaised("TypeError")
     ELSE CHOOSE reply \in
            {FitReturned(placed.heap[placed.ret], placed.locals) :
               placed \in {ApplyHandler(<<avatar_image, accessory_image>>,
                                        1, 2, chosen.placement, {},
                                        DotPixel(0))}} : TRUE

\* _get_accessory_image on what imread returned, lines 127-133: the .shape of
\* None raises.
FitDecoded(avatar_image, decoded, cat, lm) ==
  IF decoded = None
  THEN FitRaised("AttributeError")
  ELSE FitResolved(avatar_image, decoded, cat, lm)

\* virtual_fitter.apply_accessory(avatar_data['image'], accessory, category,
\* avatar_data.get('landmarks')) for a reference of get_accessory_by_id: the
\* path is looked up in the cache, the file exists and is decoded.
Fit(avatar_image, accessory, cat, lm, cache) ==
  IF UsesPath(accessory) /\ accessory.path.s \in DOMAIN cache
  THEN FitResolved(avatar_image, cache[accessory.path.s], cat, lm)
  ELSE FitDecoded(avatar_image, DecodedFile(accessory.path.s), cat, lm)

\* Faulty variant: the result is not stored.
StoreNothing(avatar_data, result_image) == avatar_data

\* Lines 252-253: avatar_data['image'] = result_image, on the dict that
\* avatars_cache holds.
StoreResult(avatar_data, result_image) ==
  [avatar_data EXCEPT !.image = result_image]

\* Faulty variant: the avatar of a failed request is dropped.
OnExceptionEvict(cache, avatar_id) ==
  [id \in DOMAIN cache \ {avatar_id} |-> cache[id]]

\* Lines 260-262: the error is logged and answered with 500; avatars_cache
\* is not touched.
OnException(cache, avatar_id) == cache

\* The answer to a request, with what the handler read and computed.
Answer(data, status, base, reply) ==
  [request |-> data, status |-> status, base |-> base,
   result |-> reply.value, locals |-> reply.locals]

\* Lines 245-262 of try_on_accessory, after apply_accessory has returned or
\* raised with `reply`: the answer and avatars_cache afterwards.
Respond(cache, data, reply) ==
  LET avatar_id == data.avatar_id.s
      avatar_data == cache[avatar_id]
  IN IF reply.outcome = "raised"
     THEN [cache |-> OnException(cache, avatar_id),
           answer |-> Answer(data, 500, avatar_data.image, reply)]
     ELSE [cache |-> [cache EXCEPT
                        ![avatar_id] = StoreResult(avatar_data,
                                                   reply.value)],
           answer |-> Answer(data, 200, avatar_data.image, reply)]

\* try_on_accessory() on request.json = data, run from its first line to
\* its response: the answer and avatars_cache afterwards.
try_on_accessory(cache, data, fitter_cache) ==
  IF Rejected(cache, data) # 0
  THEN [cache |-> cache,
        answer |-> Answer(data, Rejected(cache, data), None,
                          FitRaised(""))]
  ELSE
    LET avatar_data == cache[data.avatar_id.s]
        accessory == get_accessory_by_id(data.accessory_id.s,
                                         data.category.s)
    IN CHOOSE done \in
         {Respond(cache, data, reply) :
            reply \in {Fit(avatar_data.image, accessory, data.category.s,
                           avatar_data.landmarks, fitter_cache)}} : TRUE

---------------------------------------------------------------------------
(* State machine: the server answers one request after the other *)

InitServer ==
  /\ PlacementIdle
  /\ CompositorIdle
  /\ ResolverIdle
  /\ avatars_cache = <<>>
  /\ log = <<>>
  /\ threads = <<>>

\* generate_avatar() with a usable image: line 190 stores the avatar under a
\* new id.  Its error responses store nothing.
GenerateAvatar ==
  /\ Cardinality(DOMAIN avatars_cache) < Len(AvatarIds)
  /\ \E avatar_data \in GeneratedAvatars :
       avatars_cache' =
         [id \in DOMAIN avatars_cache
                   \cup {AvatarId(Cardinality(DOMAIN avatars_cache) + 1)} |->
            IF id \in DOMAIN avatars_cache
            THEN avatars_cache[id] ELSE avatar_data]
  /\ UNCHANGED <<log, threads>>
  /\ UNCHANGED placementVars
  /\ UNCHANGED compositorVars
  /\ UNCHANGED resolverVars

\* A try-on request, handled from its first line to its response.
TryOn ==
  /\ Len(log) < MaxRequests
  /\ \E data \in Requests :
       \E done \in {try_on_accessory(avatars_cache, data, accessory_cache)} :
         /\ avatars_cache' = done.cache
         /\ log' = Append(log, done.answer)
  /\ UNCHANGED threads
  /\ UNCHANGED placementVars
  /\ UNCHANGED compositorVars
  /\ UNCHANGED resolverVars

NextServer == GenerateAvatar \/ TryOn

SpecServer == InitServer /\ [][NextServer]_vars

---------------------------------------------------------------------------
(* Reading the log of the server *)

\* The i-th request was answered with success.
Succeeded(i) == log[i].status = 200

\* The avatar a successful request was applied to.
AvatarOf(i) == log[i].request.avatar_id.s

\* The successful requests on the same avatar that came after the i-th.
LaterOnSameAvatar(i) ==
  {j \in i + 1 .. Len(log) : Succeeded(j) /\ AvatarOf(j) = AvatarOf(i)}

\* The first of them.
NextOnSameAvatar(i) ==
  CHOOSE j \in LaterOnSameAvatar(i) :
    \A other \in LaterOnSameAvatar(i) : j <= other

\* The pixels of the avatar the i-th request blended its accessory onto.
RegionOf(i) ==
  IF log[i].locals.k = "locals"
  THEN {rc \in DOMAIN log[i].result.px :
          /\ rc[1] - log[i].locals.y_offset
               \in 0 .. log[i].locals.roi_height - 1
          /\ rc[2] - log[i].locals.x_offset
               \in 0 .. log[i].locals.roi_width - 1}
  ELSE {}

\* The colour of the accessory file the i-th request named, a uniform and
\* fully opaque image.
ColourOf(i) ==
  DecodedFile(AccessoryPath(log[i].request.category.s,
                            log[i].request.accessory_id.s)).px[<<0, 0>>]

SameColour(p, q) == p.b = q.b /\ p.g = q.g /\ p.r = q.r

---------------------------------------------------------------------------
(* C23 *)

\* C23: try-on requests made one after the other on the same avatar are
\* applied in the order supplied: the output of a successful request is the
\* base of the next successful request on that avatar, the output of the
\* last one is the stored image, and where the accessories of two requests
\* overlap the pixel after the later request has the later accessory's
\* colour.
C23_AppliedInOrder ==
  \A i \in 1 .. Len(log) :
    Succeeded(i) =>
      /\ IF LaterOnSameAvatar(i) = {}
         THEN avatars_cache[AvatarOf(i)].image = log[i].result
         ELSE log[NextOnSameAvatar(i)].base = log[i].result
      /\ \A j \in LaterOnSameAvatar(i) :
           \A rc \in RegionOf(i) \cap RegionOf(j) :
             SameColour(log[j].result.px[rc], ColourOf(j))

\* A red accessory and then a blue one were put on the same avatar; their
\* regions overlap in part, and the stored image is blue where they overlap
\* and red on the rest of the first region.
C23_Witness ==
  /\ Len(log) = 2
  /\ Succeeded(1) /\ Succeeded(2)
  /\ AvatarOf(1) = AvatarOf(2)
  /\ ~SameColour(ColourOf(1), ColourOf(2))
  /\ RegionOf(1) \cap RegionOf(2) # {}
  /\ RegionOf(1) \ RegionOf(2) # {}
  /\ \A rc \in RegionOf(1) \cap RegionOf(2) :
       SameColour(avatars_cache[AvatarOf(1)].image.px[rc], ColourOf(2))
  /\ \A rc \in RegionOf(1) \ RegionOf(2) :
       SameColour(avatars_cache[AvatarOf(1)].image.px[rc], ColourOf(1))

---------------------------------------------------------------------------
(* C30 *)

\* C30: every try-on request that ends in an error response (400, 404 or
\* 500) leaves avatars_cache unchanged: the image and the landmarks of every
\* stored avatar are what they were before the request.
C30_ErrorLeavesCacheUnchanged ==
  [][(Len(log') = Len(log) + 1 /\ log'[Len(log')].status # 200)
       => avatars_cache' = avatars_cache]_vars

\* A request that succeeded was followed by one on the same avatar that was
\* answered with 500, and the avatar still holds the first one's output.
C30_Witness ==
  /\ Len(log) = 2
  /\ Succeeded(1)
  /\ RegionOf(1) # {}
  /\ log[2].status = 500
  /\ log[2].request.avatar_id = log[1].request.avatar_id
  /\ avatars_cache[AvatarOf(1)].image = log[1].result

---------------------------------------------------------------------------
(* State machine: the server answers requests on concurrent threads       *)
(*                                                                         *)
(* app.run(host=host, port=port, debug=debug_mode) serves every request on *)
(* a thread of its own, and neither server.py nor VirtualFitter takes a    *)
(* lock.  A thread runs try_on_accessory in four steps: up to the call of  *)
(* apply_accessory, whose arguments it has read from avatars_cache; up to  *)
(* the call of cv2.imread; up to its return; and from there to the         *)
(* response.  Threads switch between the steps.                            *)

\* The threads that serve requests at the same time.
Threads == {"t1", "t2"}

\* A thread that serves no request yet.
IdleThread ==
  [pc |-> "idle", data |-> None, status |-> 0, base |-> None,
   landmarks |-> None, accessory |-> None, accessory_image |-> None,
   result |-> None, locals |-> None]

\* The thread has answered with the status.
Answered(thread, status) ==
  [thread EXCEPT !.pc = "done", !.status = status]

InitThreads ==
  /\ PlacementIdle
  /\ CompositorIdle
  /\ ResolverIdle
  /\ avatars_cache = <<>>
  /\ log = <<>>
  /\ threads = [t \in Threads |-> IdleThread]

\* Lines 208-243: the request is checked and the arguments of
\* apply_accessory are read from avatars_cache.
Receive(t) ==
  /\ threads[t].pc = "idle"
  /\ \E data \in Requests :
       threads' =
         [threads EXCEPT ![t] =
            IF Rejected(avatars_cache, data) # 0
            THEN Answered([@ EXCEPT !.data = data],
                          Rejected(avatars_cache, data))
            ELSE [@ EXCEPT
                    !.pc = "resolving",
                    !.data = data,
                    !.base = avatars_cache[data.avatar_id.s].image,
                    !.landmarks = avatars_cache[data.avatar_id.s].landmarks,
                    !.accessory = get_accessory_by_id(data.accessory_id.s,
                                                      data.category.s)]]
  /\ UNCHANGED <<avatars_cache, log>>
  /\ UNCHANGED placementVars
  /\ UNCHANGED compositorVars
  /\ UNCHANGED resolverVars

\* Lines 107-116 of _get_accessory_image: the path is not in
\* accessory_cache, its file exists, and cv2.imread is entered.
BeginDecode(t) ==
  /\ threads[t].pc = "resolving"
  /\ UsesPath(threads[t].accessory)
  /\ threads[t].accessory.path.s \notin DOMAIN accessory_cache
  /\ threads' = [threads EXCEPT ![t].pc = "decoding"]
  /\ UNCHANGED <<avatars_cache, log>>
  /\ UNCHANGED placementVars
  /\ UNCHANGED compositorVars
  /\ UNCHANGED resolverVars

\* cv2.imread returns and _get_accessory_image runs to its end (lines
\* 116-133); nothing is stored in accessory_cache.  On None line 128 raises
\* and the request is answered with 500.
EndDecode(t) ==
  /\ threads[t].pc = "decoding"
  /\ LET decoded == DecodedFile(threads[t].accessory.path.s)
     IN threads' =
          [threads EXCEPT ![t] =
             IF decoded = None
             THEN Answered(@, 500)
             ELSE [@ EXCEPT !.pc = "placing",
                            !.accessory_image = decoded]]
  /\ UNCHANGED <<avatars_cache, log>>
  /\ UNCHANGED placementVars
  /\ UNCHANGED compositorVars
  /\ UNCHANGED resolverVars

\* Lines 78-91 of apply_accessory and lines 245-262 of try_on_accessory: the
\* accessory is composited onto the image read at the start, and the result
\* is stored in the avatar's dict.
Complete(t) ==
  /\ threads[t].pc = "placing"
  /\ \E reply \in {FitResolved(threads[t].base, threads[t].accessory_image,
                                threads[t].data.category.s,
                                threads[t].landmarks)} :
       LET avatar_id == threads[t].data.avatar_id.s
       IN IF reply.outcome = "raised"
          THEN /\ threads' = [threads EXCEPT ![t] = Answered(@, 500)]
               /\ avatars_cache' = OnException(avatars_cache, avatar_id)
          ELSE /\ threads' =
                    [threads EXCEPT ![t] =
                       Answered([@ EXCEPT !.result = reply.value,
                                          !.locals = reply.locals], 200)]
               /\ avatars_cache' =
                    [avatars_cache EXCEPT
                       ![avatar_id] = StoreResult(@, reply.value)]
  /\ UNCHANGED log
  /\ UNCHANGED placementVars
  /\ UNCHANGED compositorVars
  /\ UNCHANGED resolverVars

NextThreads ==
  \/ GenerateAvatar
  \/ \E t \in Threads :
       Receive(t) \/ BeginDecode(t) \/ EndDecode(t) \/ Complete(t)

SpecThreads == InitThreads /\ [][NextThreads]_vars

---------------------------------------------------------------------------
(* C22 *)

\* The threads that are inside cv2.imread for the path.
Decoding(path) ==
  {t \in Threads :
     threads[t].pc = "decoding" /\ threads[t].accessory.path.s = path}

\* The paths the threads resolve.
PathsInUse ==
  {threads[t].accessory.path.s :
     t \in {u \in Threads : threads[u].accessory # None}}

\* C22: when several callers resolve the same uncached path concurrently, at
\* most one decode of that path is in progress at any time.
C22_AtMostOneDecode ==
  \A path \in PathsInUse : Cardinality(Decoding(path)) <= 1

---------------------------------------------------------------------------
(* C26 *)

\* The threads whose request on the avatar was answered with success.
FittedOn(avatar_id) ==
  {t \in Threads :
     /\ threads[t].pc = "done"
     /\ threads[t].status = 200
     /\ threads[t].data.avatar_id.s = avatar_id}

\* No thread is at work.
AllAnswered == \A t \in Threads : threads[t].pc \in {"idle", "done"}

\* The image of the avatar after the request of thread t has been applied
\* to the image `base`, all by itself.
AppliedAlone(base, avatar_id, t) ==
  FitResolved(base, DecodedFile(threads[t].accessory.path.s),
              threads[t].data.category.s,
              avatars_cache[avatar_id].landmarks).value

\* The image of the avatar after the request of thread t1 and then the
\* request of thread t2 have been applied to the generated avatar.
OneAfterTheOther(avatar_id, t1, t2) ==
  AppliedAlone(AppliedAlone(AvatarImage(10, 10), avatar_id, t1),
               avatar_id, t2)

\* C26: when two try-on requests for the same avatar are handled
\* concurrently, no update is lost: after both have completed the stored
\* image holds both accessories, as if the two requests had run one after
\* the other.
C26_NoLostUpdate ==
  \A avatar_id \in DOMAIN avatars_cache :
    \A t1 \in Threads, t2 \in Threads :
      (t1 # t2 /\ AllAnswered /\ FittedOn(avatar_id) = {t1, t2}) =>
        avatars_cache[avatar_id].image
          \in {OneAfterTheOther(avatar_id, t1, t2),
               OneAfterTheOther(avatar_id, t2, t1)}

====
